---- MODULE Spec2Model ----
(***************************************************************************)
(* A model of the ReAct agent loop (ReactAgent.run), of the model client   *)
(* it awaits (DeepSeekClient.complete), of the tool invocations it awaits  *)
(* and of the hosting surface (App.handleSubmit / App.runSession) that     *)
(* starts runs and cancels the run it supersedes.                          *)
(*                                                                         *)
(* One action is one JavaScript task: an event handler or the continuation *)
(* of a settled promise, run to its next suspension point together with    *)
(* the microtasks it queues (the continuation of runSession after          *)
(* agent.run settles is such a microtask).                                 *)
(*                                                                         *)
(* The tools' own logic is modelled beside it, each part with a            *)
(* specification of its own over inputs drawn from bounded sets:           *)
(* parseReactOutput on model texts (SpecParse), resolveRepoPath and        *)
(* pathFromRepoRoot on candidate paths (SpecPath), the file tools on a     *)
(* filesystem (SpecFs) and the scripting tools on scripts (SpecNode).      *)
(***************************************************************************)
EXTENDS Naturals, Integers, Sequences, FiniteSets, TLC

(***************************************************************************)
(* Bounds of the model.                                                    *)
(***************************************************************************)
\* The largest number of requests the user submits to the surface.
MaxRuns == 2
\* The largest explicitly configured maxTurns (the default is drawn too).
MaxCfgTurns == 2
\* The largest number of lines of a model text handed to the parser.
MaxLines == 3
\* The largest number of segments of a candidate path.
MaxSegs == 3
\* The largest number of file tool invocations.
MaxFsCalls == 3
\* The largest number of statements of a script.
MaxStmts == 2
\* The largest number of scripting tool invocations.
MaxNodeCalls == 2
\* The largest number of web tool invocations of one run.
MaxWebCalls == 2
\* The largest number of lines of a searched file that match the pattern.
MaxFileLines == 120

RunIds == 0 .. (MaxRuns - 1)

(***************************************************************************)
(* Program constants.                                                      *)
(***************************************************************************)
\* config.maxTurns ?? 8
\* read_file: the size in bytes above which a file is not displayed, and
\* the number of characters above which its contents are cut.
READ_BYTE_LIMIT == 200000
READ_CHAR_LIMIT == 4000
\* MAX_MATCHES of the search tool.
MAX_MATCHES == 100
DefaultMaxTurns == 8
\* useState<number | null>(null): the empty active-run marker.
NoSession == -1

EXHAUSTED_OUTPUT == "I could not finish within the allotted number of steps."
TOOL_FAILED_PREFIX == "Tool execution failed: "
ABORT_MESSAGE == "Run aborted before completion (superseded by a newer request)."

\* The names the registry is built from: the scripting tool, whose execute
\* resolves with a text, rejects with an Error, or rejects with whatever
\* value the script throws.
ToolNames == {"node"}
\* A name the model may utter that no tool carries.
UnknownNames == {"bogus"}

VARIABLES
    maxTurnsCfg,        \* config.maxTurns: <<>> when not configured, else <<n>>
    requests,           \* how many prompts the user is going to submit
    mounted,            \* the surface is rendered (false after unmount + exit)
    sessionCounter,     \* sessionCounterRef.current
    sessions,           \* the sessions state, newest entry first
    activeSessionId,    \* the active-run marker
    abortControllerRef, \* the run whose controller abortControllerRef holds
    aborted,            \* per run: its controller's signal.aborted
    pc,                 \* per run: "idle", "llm", "tool", "returned", "thrown"
    turn,               \* per run: the loop counter
    thoughts,           \* per run: the step records
    scratchpad,         \* per run: the scratchpad, one entry per turn block
    messages,           \* per run: the prompt of the latest model call
    llmOutput,          \* per run: the latest model reply
    pending,            \* per run: the parsed action and the tool awaited for it
    error,              \* per run: the error run() rejected with
    result,             \* per run: the AgentResult run() resolved with
    llmCalls,           \* per run: calls of llm.complete so far
    toolCalls,          \* per run: calls of tool.execute so far
    llmInFlight,        \* per run: pending llm.complete promises
    toolInFlight,       \* per run: pending tool.execute promises
    toolOutcome,        \* per run: how the tool invocation just awaited settled
    supersededAt,       \* per run: the step it was in when its signal was cancelled
    parseIn,            \* the model text handed to parseReactOutput
    parseOut,           \* what parseReactOutput made of it
    cwd,                \* ctx.cwd, resolved: the repository root, as segments
    pathIn,             \* the candidate path handed to resolveRepoPath
    pathOut,            \* what resolveRepoPath made of it
    displayPath,        \* pathFromRepoRoot of the accepted path
    pathAgain,          \* resolveRepoPath of that display path
    pathPc,             \* "start", "rejected", "resolved", "formatted", "again"
    fsDirs,             \* the directories of the filesystem
    fsFiles,            \* the files of the filesystem
    fsLast,             \* the latest file tool invocation and how it went
    fsCalls,            \* how many file tool invocations were made
    hostAlive,          \* the host process (the agent's own) is running
    snippet,            \* the script handed to the scripting tool last
    snippetOut,         \* how that invocation went
    nodeCalls,          \* how many scripting tool invocations were made
    timers,             \* the host's pending timers, each with the invocation
                        \* that started it
    webSignal,          \* ctx.signal.aborted of the run the web tool serves
    webPc,              \* web.execute: "idle", "awaiting", "settled"
    webPromise,         \* the promise of runCurlRequest
    webChildren,        \* the curl processes spawned, one per invocation
    webAbortTick,       \* spawn has queued the abort of its child (nextTick)
    webOut,             \* how the latest web invocation settled
    webCalls,           \* how many web invocations were made
    rtContent,          \* the contents handed to write_file
    rtStored,           \* the contents of the file write_file wrote, as stored
    rtRead,             \* what read_file returned for that file
    rtPc,               \* "start", "written", "failed", "read"
    srchTree,           \* the files and directories file_search walks
    srchIn,             \* the payload handed to file_search
    srchOut             \* how that search went

agentVars == <<maxTurnsCfg, requests, mounted, sessionCounter, sessions,
               activeSessionId, abortControllerRef, aborted, pc, turn,
               thoughts, scratchpad, messages, llmOutput, pending, error,
               result, llmCalls, toolCalls, llmInFlight, toolInFlight,
               toolOutcome, supersededAt>>
parseVars == <<parseIn, parseOut>>
pathVars == <<cwd, pathIn, pathOut, displayPath, pathAgain, pathPc>>
fsVars == <<fsDirs, fsFiles, fsLast, fsCalls>>
nodeVars == <<hostAlive, snippet, snippetOut, nodeCalls, timers>>
webVars == <<webSignal, webPc, webPromise, webChildren, webAbortTick, webOut,
             webCalls>>
rtVars == <<rtContent, rtStored, rtRead, rtPc>>
searchVars == <<srchTree, srchIn, srchOut>>
moreVars == <<webVars, rtVars, searchVars>>
toolVars == <<parseVars, pathVars, fsVars, nodeVars, moreVars>>
vars == <<agentVars, toolVars>>

(***************************************************************************)
(* Values.                                                                 *)
(***************************************************************************)
NoError == [name |-> "", message |-> ""]
AbortError == [name |-> "AbortError", message |-> "This operation was aborted"]
NoResult == [output |-> "", thoughts |-> <<>>]
NoReply == [final |-> FALSE, action |-> FALSE, thought |-> "",
            toolName |-> "", toolInput |-> "", text |-> ""]
NoMessages == [task |-> "", scratchpad |-> <<>>]

\* What a model reply holds: whether a "Final Response:" label with text is
\* in it, whether an "Action:" line followed by "Action Input:" is in it,
\* and the texts after the labels.
Reply(final, action, toolName) ==
    [final |-> final, action |-> action, thought |-> "think",
     toolName |-> toolName, toolInput |-> "input", text |-> "done"]

Replies ==
    {Reply(TRUE, FALSE, ""), Reply(TRUE, TRUE, "node"),
     Reply(FALSE, FALSE, "")}
        \cup {Reply(FALSE, TRUE, n) : n \in ToolNames \cup UnknownNames}

\* How an awaited tool.execute settles: it resolves with a text, rejects
\* with an Error carrying a message, or rejects with a value that is no
\* object (a script's `throw null`).
Resolve(text) == [kind |-> "resolve", value |-> text, isNull |-> FALSE]
RejectError(msg) == [kind |-> "reject", value |-> msg, isNull |-> FALSE]
RejectNull == [kind |-> "reject", value |-> "", isNull |-> TRUE]

NoOutcome == [kind |-> "none", value |-> "", isNull |-> FALSE]

ToolOutcomes(name) == {Resolve("out"), RejectError("boom"), RejectNull}

(***************************************************************************)
(* ReactAgent: the constructor and the pure helpers of run().              *)
(***************************************************************************)
\* this.maxTurns = config.maxTurns ?? 8
ConfiguredMaxTurns(cfg) == IF cfg = <<>> THEN DefaultMaxTurns ELSE cfg[1]

maxTurns == ConfiguredMaxTurns(maxTurnsCfg)

\* for (const tool of this.tools) this.toolMap.set(tool.name, tool)
Registry == ToolNames

\* A loop that runs one turn too many.
LoopContinuesOffByOne(t) == t <= maxTurns
\* The loop condition: turn < this.maxTurns
LoopContinues(t) == t < maxTurns

\* A lookup that falls back to a registered tool on a miss.
ToolLookupWithFallback(name) ==
    IF name \in Registry THEN <<name>> ELSE <<"node">>
\* this.toolMap.get(parsed.toolName): <<>> for undefined.
ToolLookup(name) == IF name \in Registry THEN <<name>> ELSE <<>>

\* buildReactMessages: the user message is the task followed by the
\* scratchpad block, which is absent while the scratchpad is empty.
BuildReactMessages(task, sp) == [task |-> task, scratchpad |-> sp]

\* A parser that answers an unparsable reply with an empty Final.
ParseReactOutputLenient(reply) ==
    IF reply.final \/ ~reply.action
    THEN [kind |-> "final", thought |-> reply.thought,
          finalResponse |-> reply.text, toolName |-> "", toolInput |-> ""]
    ELSE [kind |-> "action", thought |-> reply.thought, finalResponse |-> "",
          toolName |-> reply.toolName, toolInput |-> reply.toolInput]
\* parseReactOutput: Final when the final pattern matches, else Action when
\* the action pattern matches, else it throws.
ParseReactOutput(reply) ==
    IF reply.final
    THEN [kind |-> "final", thought |-> reply.thought,
          finalResponse |-> reply.text, toolName |-> "", toolInput |-> ""]
    ELSE IF reply.action
    THEN [kind |-> "action", thought |-> reply.thought, finalResponse |-> "",
          toolName |-> reply.toolName, toolInput |-> reply.toolInput]
    ELSE [kind |-> "throws", thought |-> "", finalResponse |-> "",
          toolName |-> "", toolInput |-> ""]

NoParsed == ParseReactOutput(NoReply)
\* parseReactOutput has not been called.
NotParsed == [kind |-> "none", thought |-> "", finalResponse |-> "",
              toolName |-> "", toolInput |-> ""]
\* No tool invocation is awaited.
NoPending == [parsed |-> NoParsed, tool |-> ""]

\* A path given to a tool: whether its text starts with the separator, and
\* the segments between the separators.
DotPath == [abs |-> FALSE, segs |-> <<".">>]
\* resolveRepoPath has returned nothing.
NoPath == [ok |-> FALSE, error |-> "", path |-> <<>>]
ACCESS_VIOLATION == "Access outside of repository root is not allowed."
\* No file tool has been invoked.
NoFsCall == [tool |-> "none", valid |-> TRUE, target |-> <<>>, ok |-> TRUE,
             error |-> "", accessed |-> {}]

\* runCurlRequest has made no promise; no web invocation has settled.
NoPromise == [state |-> "none", value |-> "", code |-> ""]
NoWebOut == [kind |-> "none", text |-> ""]
\* No contents; read_file has returned nothing.
NoContent == [text |-> "", length |-> 0, wide |-> FALSE, lone |-> FALSE]
NoRead == [kind |-> "none", content |-> NoContent]
\* No tree, no search payload, no search outcome.
NoTree == [kinds |-> <<>>, locked |-> {}, order |-> "asc"]
NoSearch == [payload |-> "none", path |-> DotPath]
NoSearchOut == [outcome |-> "none", error |-> "", results |-> <<>>,
                trace |-> <<>>, text |-> <<>>]

\* No script has been run.
NoSnippetOut == [tool |-> "none", outcome |-> "none", text |-> <<>>,
                 exitCalls |-> <<>>, hostExit |-> <<>>]

\* The errors run() lets through.
UnparsableResponse ==
    [name |-> "Error", message |-> "Unable to parse LLM response into ReAct action."]
UnknownTool(name) ==
    [name |-> "Error", message |-> "LLM referenced unknown tool: " \o name]
ApiError == [name |-> "Error", message |-> "DeepSeek API error"]
\* `(error as Error).message` evaluated on a rejection value that is null.
NullMessageTypeError ==
    [name |-> "TypeError", message |-> "Cannot read properties of null (reading 'message')"]

\* The observation of a settled tool.execute, as a sequence of text pieces:
\* the tool's text, or the failure prefix followed by the error's message.
\* It is only evaluated when reading .message does not itself throw.
Observation(outcome) ==
    IF outcome.kind = "resolve"
    THEN <<outcome.value>>
    ELSE <<TOOL_FAILED_PREFIX, outcome.value>>

\* Whether the catch block of the tool invocation itself throws.
CatchThrows(outcome) == outcome.kind = "reject" /\ outcome.isNull

\* A Final record that carries the action fields as well.
FinalThoughtWithAction(parsed, raw) ==
    [thought |-> parsed.thought,
     action |-> <<[toolName |-> parsed.toolName, input |-> parsed.toolInput]>>,
     observation |-> <<>>, rawOutput |-> raw]
\* thoughts.push({thought, rawOutput}) on Final.
FinalThought(parsed, raw) ==
    [thought |-> parsed.thought, action |-> <<>>, observation |-> <<>>,
     rawOutput |-> raw]

\* thoughts.push({thought, action, observation, rawOutput}) after a tool.
ActionThought(parsed, obs, raw) ==
    [thought |-> parsed.thought,
     action |-> <<[toolName |-> parsed.toolName, input |-> parsed.toolInput]>>,
     observation |-> obs, rawOutput |-> raw]

\* A turn block that leaves the Observation line out.
TurnScratchNoObservation(parsed, obs) ==
    [thought |-> parsed.thought, action |-> parsed.toolName,
     actionInput |-> parsed.toolInput, observation |-> <<>>]
\* turnScratch: the Thought, Action, Action Input and Observation lines.
TurnScratch(parsed, obs) ==
    [thought |-> parsed.thought, action |-> parsed.toolName,
     actionInput |-> parsed.toolInput, observation |-> obs]

\* A thoughts array kept on the agent instance and shared by its runs.
PushThoughtShared(ths, r, rec) == [q \in RunIds |-> Append(ths[q], rec)]
\* const thoughts: AgentThought[] = [] is local to one call of run();
\* thoughts.push(rec) appends to the array of that call only.
PushThought(ths, r, rec) == [ths EXCEPT ![r] = Append(@, rec)]

\* scratchpad = scratchpad.length ? `${scratchpad}\n\n${turnScratch}`
\*                                 : turnScratch
JoinScratchpad(sp, block) == Append(sp, block)

(***************************************************************************)
(* The hosting surface's bookkeeping (App).                                *)
(***************************************************************************)
\* A runSession that forgets to abort the prior controller.
AbortPriorSkipped(ab, ref) == ab
\* abortControllerRef.current?.abort(): cancels the signal of the run whose
\* controller the ref holds, if any.
AbortPrior(ab, ref) ==
    IF ref = NoSession THEN ab ELSE [ab EXCEPT ![ref] = TRUE]

\* The entry handleSubmit prepends.
NewSession(id) ==
    [id |-> id, status |-> "running", result |-> NoResult, error |-> ""]

\* A patch that is merged into every entry.
PatchSessionAll(ss, sessionId, status, res, err) ==
    [i \in DOMAIN ss |->
        [ss[i] EXCEPT !.status = status, !.result = res, !.error = err]]
\* patchSession: the patch is merged into the entries whose id is sessionId.
PatchSession(ss, sessionId, status, res, err) ==
    [i \in DOMAIN ss |->
        IF ss[i].id = sessionId
        THEN [ss[i] EXCEPT !.status = status, !.result = res, !.error = err]
        ELSE ss[i]]

\* The try/catch of runSession once agent.run has resolved with res.
SessionsAfterReturn(ss, sessionId, res) ==
    PatchSession(ss, sessionId, "completed", res, "")

\* The try/catch of runSession once agent.run has rejected with err.
SessionsAfterThrow(ss, sessionId, err) ==
    IF err.name = "AbortError"
    THEN PatchSession(ss, sessionId, "aborted", NoResult, ABORT_MESSAGE)
    ELSE PatchSession(ss, sessionId, "error", NoResult, err.message)

\* A finally that clears the marker whatever it holds.
ActiveAfterSettleCleared(current, sessionId) == NoSession
\* finally: setActiveSessionId(current => current === sessionId ? null : current)
ActiveAfterSettle(current, sessionId) ==
    IF current = sessionId THEN NoSession ELSE current

\* The step a run is in when its signal is cancelled.
StepOf(r) == IF pc[r] \in {"llm", "tool"} THEN pc[r] ELSE "settled"

(***************************************************************************)
(* The initial state: an agent built from a configuration, a surface that  *)
(* has started no run. The default turn budget is explored for a single    *)
(* request, supersession with the explicit budgets.                        *)
(***************************************************************************)
Inputs ==
    {<<(<<>>), 1>>}
        \cup {<<(<<n>>), k>> : n \in 0 .. MaxCfgTurns, k \in 1 .. MaxRuns}

\* The agent and the surface before the first request.
AgentFresh ==
    /\ mounted = TRUE
    /\ sessionCounter = 0
    /\ sessions = <<>>
    /\ activeSessionId = NoSession
    /\ abortControllerRef = NoSession
    /\ aborted = [r \in RunIds |-> FALSE]
    /\ pc = [r \in RunIds |-> "idle"]
    /\ turn = [r \in RunIds |-> 0]
    /\ thoughts = [r \in RunIds |-> <<>>]
    /\ scratchpad = [r \in RunIds |-> <<>>]
    /\ messages = [r \in RunIds |-> NoMessages]
    /\ llmOutput = [r \in RunIds |-> NoReply]
    /\ pending = [r \in RunIds |-> NoPending]
    /\ error = [r \in RunIds |-> NoError]
    /\ result = [r \in RunIds |-> NoResult]
    /\ llmCalls = [r \in RunIds |-> 0]
    /\ toolCalls = [r \in RunIds |-> 0]
    /\ llmInFlight = [r \in RunIds |-> 0]
    /\ toolInFlight = [r \in RunIds |-> 0]
    /\ toolOutcome = [r \in RunIds |-> NoOutcome]
    /\ supersededAt = [r \in RunIds |-> "none"]

\* The parser has been handed nothing.
ParseIdle == parseIn = <<>> /\ parseOut = NotParsed

\* No path has been handed to resolveRepoPath.
PathIdle ==
    /\ cwd = <<>>
    /\ pathIn = DotPath
    /\ pathOut = NoPath
    /\ displayPath = DotPath
    /\ pathAgain = NoPath
    /\ pathPc = "start"

\* No file tool has been invoked (and no filesystem is looked at).
FsIdle ==
    /\ fsDirs = {}
    /\ fsFiles = {}
    /\ fsLast = NoFsCall
    /\ fsCalls = 0

\* No script has been run.
NodeIdle ==
    /\ hostAlive = TRUE
    /\ snippet = <<>>
    /\ snippetOut = NoSnippetOut
    /\ nodeCalls = 0
    /\ timers = {}

\* The web tool has not been invoked and its run has not been cancelled.
WebIdle ==
    /\ webSignal = FALSE
    /\ webPc = "idle"
    /\ webPromise = NoPromise
    /\ webChildren = <<>>
    /\ webAbortTick = FALSE
    /\ webOut = NoWebOut
    /\ webCalls = 0

\* Nothing has been written to be read back.
RoundTripIdle ==
    /\ rtContent = NoContent
    /\ rtStored = NoContent
    /\ rtRead = NoRead
    /\ rtPc = "start"

\* No search has been asked for.
SearchIdle ==
    /\ srchTree = NoTree
    /\ srchIn = NoSearch
    /\ srchOut = NoSearchOut

MoreIdle == WebIdle /\ RoundTripIdle /\ SearchIdle

ToolsIdle == ParseIdle /\ PathIdle /\ FsIdle /\ NodeIdle /\ MoreIdle

Init ==
    /\ \E in \in Inputs : maxTurnsCfg = in[1] /\ requests = in[2]
    /\ AgentFresh
    /\ ToolsIdle

(***************************************************************************)
(* handleSubmit, with the runSession it calls and the part of agent.run    *)
(* that runs before its first await: the prior controller is aborted, a    *)
(* new one is installed, and run() either calls llm.complete for turn 0 or *)
(* (a budget of no turns) returns the exhaustion result at once.           *)
(***************************************************************************)
Submit ==
    /\ mounted
    /\ sessionCounter < requests
    /\ LET id == sessionCounter
           ref == abortControllerRef
           listed == <<NewSession(id)>> \o sessions
           res == [output |-> EXHAUSTED_OUTPUT, thoughts |-> <<>>]
       IN  /\ sessionCounter' = id + 1
           /\ aborted' = AbortPrior(aborted, ref)
           /\ supersededAt' =
                 IF ref # NoSession /\ ~aborted[ref]
                 THEN [supersededAt EXCEPT ![ref] = StepOf(ref)]
                 ELSE supersededAt
           /\ abortControllerRef' = id
           /\ turn' = [turn EXCEPT ![id] = 0]
           /\ thoughts' = [thoughts EXCEPT ![id] = <<>>]
           /\ scratchpad' = [scratchpad EXCEPT ![id] = <<>>]
           /\ IF LoopContinues(0)
              THEN /\ messages' =
                        [messages EXCEPT ![id] = BuildReactMessages("task", <<>>)]
                   /\ llmCalls' = [llmCalls EXCEPT ![id] = @ + 1]
                   /\ llmInFlight' = [llmInFlight EXCEPT ![id] = @ + 1]
                   /\ pc' = [pc EXCEPT ![id] = "llm"]
                   /\ sessions' = listed
                   /\ activeSessionId' = id
                   /\ UNCHANGED result
              ELSE /\ pc' = [pc EXCEPT ![id] = "returned"]
                   /\ result' = [result EXCEPT ![id] = res]
                   /\ sessions' = SessionsAfterReturn(listed, id, res)
                   /\ activeSessionId' = ActiveAfterSettle(id, id)
                   /\ UNCHANGED <<messages, llmCalls, llmInFlight>>
    /\ UNCHANGED <<maxTurnsCfg, requests, mounted, llmOutput, pending, error,
                   toolCalls, toolInFlight, toolOutcome>>
    /\ UNCHANGED toolVars

(***************************************************************************)
(* Unmounting the surface (SIGINT / SIGTERM: unmount, whose effect cleanup  *)
(* aborts the current controller, then process.exit): the process is gone  *)
(* and with it all of its state; nothing runs afterwards.                  *)
(***************************************************************************)
Unmount ==
    /\ mounted
    /\ mounted' = FALSE
    /\ aborted' = [r \in RunIds |-> FALSE]
    /\ sessionCounter' = 0
    /\ sessions' = <<>>
    /\ activeSessionId' = NoSession
    /\ abortControllerRef' = NoSession
    /\ pc' = [r \in RunIds |-> "idle"]
    /\ turn' = [r \in RunIds |-> 0]
    /\ thoughts' = [r \in RunIds |-> <<>>]
    /\ scratchpad' = [r \in RunIds |-> <<>>]
    /\ messages' = [r \in RunIds |-> NoMessages]
    /\ llmOutput' = [r \in RunIds |-> NoReply]
    /\ pending' = [r \in RunIds |-> NoPending]
    /\ error' = [r \in RunIds |-> NoError]
    /\ result' = [r \in RunIds |-> NoResult]
    /\ llmCalls' = [r \in RunIds |-> 0]
    /\ toolCalls' = [r \in RunIds |-> 0]
    /\ llmInFlight' = [r \in RunIds |-> 0]
    /\ toolInFlight' = [r \in RunIds |-> 0]
    /\ toolOutcome' = [r \in RunIds |-> NoOutcome]
    /\ supersededAt' = [r \in RunIds |-> "none"]
    /\ UNCHANGED <<maxTurnsCfg, requests>>
    /\ UNCHANGED toolVars

(***************************************************************************)
(* ReactAgent.run leaves by throwing err (run() rejects): the catch and    *)
(* finally blocks of runSession follow in the same task.                   *)
(***************************************************************************)
RunThrows(r, err) ==
    /\ pc' = [pc EXCEPT ![r] = "thrown"]
    /\ error' = [error EXCEPT ![r] = err]
    /\ sessions' = SessionsAfterThrow(sessions, r, err)
    /\ activeSessionId' = ActiveAfterSettle(activeSessionId, r)
    /\ UNCHANGED result

(***************************************************************************)
(* ReactAgent.run returns res (run() resolves): the try and finally blocks *)
(* of runSession follow in the same task.                                  *)
(***************************************************************************)
RunReturns(r, res) ==
    /\ pc' = [pc EXCEPT ![r] = "returned"]
    /\ result' = [result EXCEPT ![r] = res]
    /\ sessions' = SessionsAfterReturn(sessions, r, res)
    /\ activeSessionId' = ActiveAfterSettle(activeSessionId, r)
    /\ UNCHANGED error

(***************************************************************************)
(* DeepSeekClient.complete rejects because the signal handed to fetch is   *)
(* cancelled (before the call or while it is pending): run() rejects with  *)
(* the AbortError.                                                         *)
(***************************************************************************)
LlmAborted(r) ==
    /\ mounted
    /\ pc[r] = "llm"
    /\ aborted[r]
    /\ llmInFlight' = [llmInFlight EXCEPT ![r] = @ - 1]
    /\ RunThrows(r, AbortError)
    /\ toolOutcome' = [toolOutcome EXCEPT ![r] = NoOutcome]
    /\ UNCHANGED <<maxTurnsCfg, requests, mounted, sessionCounter,
                   abortControllerRef, aborted, turn, thoughts, scratchpad,
                   messages, llmOutput, pending, llmCalls, toolCalls,
                   toolInFlight, supersededAt>>
    /\ UNCHANGED toolVars

(***************************************************************************)
(* DeepSeekClient.complete rejects on its own (a response that is not ok,  *)
(* or one with no content): nothing in run() catches it.                   *)
(***************************************************************************)
LlmFails(r) ==
    /\ mounted
    /\ pc[r] = "llm"
    /\ ~aborted[r]
    /\ llmInFlight' = [llmInFlight EXCEPT ![r] = @ - 1]
    /\ RunThrows(r, ApiError)
    /\ toolOutcome' = [toolOutcome EXCEPT ![r] = NoOutcome]
    /\ UNCHANGED <<maxTurnsCfg, requests, mounted, sessionCounter,
                   abortControllerRef, aborted, turn, thoughts, scratchpad,
                   messages, llmOutput, pending, llmCalls, toolCalls,
                   toolInFlight, supersededAt>>
    /\ UNCHANGED toolVars

\* A tool.execute call that is not awaited: the loop goes straight on to the
\* next turn's model call while the tool is still executing.
InvokeToolNoAwait(r, parsed, tool) ==
    /\ pending' = [pending EXCEPT ![r] = [parsed |-> parsed, tool |-> tool]]
    /\ toolCalls' = [toolCalls EXCEPT ![r] = @ + 1]
    /\ toolInFlight' = [toolInFlight EXCEPT ![r] = @ + 1]
    /\ turn' = [turn EXCEPT ![r] = @ + 1]
    /\ llmCalls' = [llmCalls EXCEPT ![r] = @ + 1]
    /\ UNCHANGED <<pc, llmInFlight, messages>>

(***************************************************************************)
(* The found tool's execute is called with the shared context and awaited: *)
(* run() is suspended until that promise settles.                          *)
(***************************************************************************)
InvokeTool(r, parsed, tool) ==
    /\ pending' = [pending EXCEPT ![r] = [parsed |-> parsed, tool |-> tool]]
    /\ toolCalls' = [toolCalls EXCEPT ![r] = @ + 1]
    /\ toolInFlight' = [toolInFlight EXCEPT ![r] = @ + 1]
    /\ llmInFlight' = [llmInFlight EXCEPT ![r] = @ - 1]
    /\ pc' = [pc EXCEPT ![r] = "tool"]
    /\ UNCHANGED <<turn, llmCalls, messages>>

(***************************************************************************)
(* llm.complete resolves with a reply: it is parsed; Final returns, an     *)
(* Action is looked up and its tool's execute is called and awaited, an    *)
(* unknown tool name or an unparsable reply throws.                        *)
(***************************************************************************)
LlmReplies(r, reply) ==
    /\ mounted
    /\ pc[r] = "llm"
    /\ ~aborted[r]
    /\ llmOutput' = [llmOutput EXCEPT ![r] = reply]
    /\ toolOutcome' = [toolOutcome EXCEPT ![r] = NoOutcome]
    /\ LET parsed == ParseReactOutput(reply)
           pushed == PushThought(thoughts, r, FinalThought(parsed, reply))
           settled == [llmInFlight EXCEPT ![r] = @ - 1]
       IN  CASE parsed.kind = "throws" ->
                  /\ RunThrows(r, UnparsableResponse)
                  /\ llmInFlight' = settled
                  /\ UNCHANGED <<thoughts, pending, toolCalls, toolInFlight,
                                 turn, llmCalls, messages>>
             [] parsed.kind = "final" ->
                  /\ thoughts' = pushed
                  /\ RunReturns(r, [output |-> parsed.finalResponse,
                                    thoughts |-> pushed[r]])
                  /\ llmInFlight' = settled
                  /\ UNCHANGED <<pending, toolCalls, toolInFlight, turn,
                                 llmCalls, messages>>
             [] parsed.kind = "action" /\ ToolLookup(parsed.toolName) = <<>> ->
                  /\ RunThrows(r, UnknownTool(parsed.toolName))
                  /\ llmInFlight' = settled
                  /\ UNCHANGED <<thoughts, pending, toolCalls, toolInFlight,
                                 turn, llmCalls, messages>>
             [] parsed.kind = "action" /\ ToolLookup(parsed.toolName) # <<>> ->
                  /\ InvokeTool(r, parsed, ToolLookup(parsed.toolName)[1])
                  /\ UNCHANGED <<thoughts, error, result, sessions,
                                 activeSessionId>>
    /\ UNCHANGED <<maxTurnsCfg, requests, mounted, sessionCounter,
                   abortControllerRef, aborted, scratchpad, supersededAt>>
    /\ UNCHANGED toolVars

(***************************************************************************)
(* The awaited tool.execute settles (the tools other than the web tool do  *)
(* not look at the signal, so it settles whether or not the signal is      *)
(* cancelled): a rejection is turned into an observation by reading the    *)
(* rejection value's message, the step record and the scratchpad block are *)
(* appended, and the loop goes to its next turn: it calls llm.complete     *)
(* again, or the budget is used up and run() returns the exhaustion        *)
(* result.                                                                 *)
(***************************************************************************)
ToolSettles(r, outcome) ==
    /\ mounted
    /\ pc[r] = "tool"
    /\ outcome \in ToolOutcomes(pending[r].tool)
    /\ toolInFlight' = [toolInFlight EXCEPT ![r] = @ - 1]
    /\ toolOutcome' = [toolOutcome EXCEPT ![r] = outcome]
    /\ pending' = [pending EXCEPT ![r] = NoPending]
    /\ IF CatchThrows(outcome)
       THEN /\ RunThrows(r, NullMessageTypeError)
            /\ UNCHANGED <<turn, thoughts, scratchpad, messages, llmCalls,
                           llmInFlight>>
       ELSE LET parsed == pending[r].parsed
                obs == Observation(outcome)
                pushed == PushThought(thoughts, r,
                                      ActionThought(parsed, obs, llmOutput[r]))
                recs == pushed[r]
                sp == JoinScratchpad(scratchpad[r], TurnScratch(parsed, obs))
            IN  /\ thoughts' = pushed
                /\ scratchpad' = [scratchpad EXCEPT ![r] = sp]
                /\ turn' = [turn EXCEPT ![r] = @ + 1]
                /\ IF LoopContinues(turn[r] + 1)
                   THEN /\ messages' = [messages EXCEPT ![r] =
                                           BuildReactMessages("task", sp)]
                        /\ llmCalls' = [llmCalls EXCEPT ![r] = @ + 1]
                        /\ llmInFlight' = [llmInFlight EXCEPT ![r] = @ + 1]
                        /\ pc' = [pc EXCEPT ![r] = "llm"]
                        /\ UNCHANGED <<error, result, sessions, activeSessionId>>
                   ELSE /\ RunReturns(r, [output |-> EXHAUSTED_OUTPUT,
                                          thoughts |-> recs])
                        /\ UNCHANGED <<messages, llmCalls, llmInFlight>>
    /\ UNCHANGED <<maxTurnsCfg, requests, mounted, sessionCounter,
                   abortControllerRef, aborted, llmOutput, toolCalls,
                   supersededAt>>
    /\ UNCHANGED toolVars

Next ==
    \/ Submit
    \/ Unmount
    \/ \E r \in RunIds : LlmAborted(r)
    \/ \E r \in RunIds : LlmFails(r)
    \/ \E r \in RunIds : \E reply \in Replies : LlmReplies(r, reply)
    \/ \E r \in RunIds : \E outcome \in ToolOutcomes(pending[r].tool) :
          ToolSettles(r, outcome)

Spec == Init /\ [][Next]_vars

TypeOK ==
    /\ mounted \in BOOLEAN
    /\ sessionCounter \in 0 .. MaxRuns
    /\ requests \in 1 .. MaxRuns
    /\ activeSessionId \in RunIds \cup {NoSession}
    /\ abortControllerRef \in RunIds \cup {NoSession}
    /\ Len(sessions) = sessionCounter
    /\ \A r \in RunIds :
          /\ pc[r] \in {"idle", "llm", "tool", "returned", "thrown"}
          /\ aborted[r] \in BOOLEAN
          /\ turn[r] \in Nat
          /\ supersededAt[r] \in {"none", "llm", "tool", "settled"}
          /\ (pc[r] = "llm") = (llmInFlight[r] = 1)
          /\ (pc[r] = "tool") = (toolInFlight[r] = 1)

(***************************************************************************)
(* parseReactOutput on model texts. A text is a sequence of lines; a line  *)
(* is a label ("Thought:", "Final Response:", "Action:", "Action Input:",  *)
(* in the prompt's spelling or in lower case) followed by a body, or a     *)
(* body with no label ("none"); the body "" leaves nothing after the label *)
(* and an unlabelled line with the body "" is a blank line. Bodies hold no *)
(* colon.                                                                  *)
(***************************************************************************)
Labels == {"thought", "final", "action", "input"}
Bodies == {"", "x"}
Lines ==
    {[label |-> l, lower |-> c, body |-> b] :
        l \in Labels, c \in BOOLEAN, b \in Bodies}
        \cup {[label |-> "none", lower |-> FALSE, body |-> b] : b \in Bodies}
Texts == UNION {[1 .. n -> Lines] : n \in 0 .. MaxLines}

MinOf(S) == CHOOSE i \in S : \A j \in S : i <= j
\* One path is the other or an ancestor of it.
IsPrefixOf(a, b) == Len(a) <= Len(b) /\ SubSeq(b, 1, Len(a)) = a
MaxOf(S) == CHOOSE i \in S : \A j \in S : j <= i

IsBlank(line) == line.label = "none" /\ line.body = ""
\* output.trim(): leading and trailing blank lines go.
TrimText(L) ==
    LET inked == {i \in DOMAIN L : ~IsBlank(L[i])}
    IN  IF inked = {} THEN <<>> ELSE SubSeq(L, MinOf(inked), MaxOf(inked))

\* The label patterns carry the i flag: the spelling's case is not looked at.
Labelled(line, l) == line.label = l

\* A remainder pattern that also matches the empty remainder.
RestMatchesEmpty(L, i) == TRUE
\* `\s*([\s\S]+)` after the label of line i of a trimmed text: at least one
\* character has to follow, which is so unless the label ends the text.
RestMatches(L, i) == L[i].body # "" \/ i < Len(L)
\* The remainder captured after the label of line i.
RestOf(L, i) == [head |-> L[i].body, rest |-> SubSeq(L, i + 1, Len(L))]

\* trimmed.match(/Final Response:\s*([\s\S]+)/i): the leftmost label counts.
FinalLabels(L) == {i \in DOMAIN L : Labelled(L[i], "final")}
FinalMatches(L) ==
    FinalLabels(L) # {} /\ RestMatches(L, MinOf(FinalLabels(L)))

\* Where the text captured after the label of line i starts once `\s*` has
\* run: on line i itself when a body follows the label; otherwise `\s*`
\* runs over the line end and the blank lines, and it starts with the next
\* line that is not blank (0: there is none). For `Action:\s*([^\n]+)\n`
\* the tool name is the whole of that line.
CaptureStart(L, i) ==
    IF L[i].body # "" THEN i
    ELSE LET later == {j \in DOMAIN L : j > i /\ ~IsBlank(L[j])}
         IN  IF later = {} THEN 0 ELSE MinOf(later)
\* /Action:\s*([^\n]+)\nAction Input:\s*([\s\S]+)/i matched at line i.
ActionMatchesAt(L, i) ==
    /\ Labelled(L[i], "action")
    /\ LET n == CaptureStart(L, i)
       IN  /\ n # 0
           /\ n + 1 <= Len(L)
           /\ Labelled(L[n + 1], "input")
           /\ RestMatches(L, n + 1)
ActionStarts(L) == {i \in DOMAIN L : ActionMatchesAt(L, i)}
ActionMatches(L) == ActionStarts(L) # {}
ToolNameOf(L) ==
    LET i == MinOf(ActionStarts(L))
    IN  IF L[i].body # "" THEN L[i].body
        ELSE IF L[CaptureStart(L, i)].label = "none" THEN L[CaptureStart(L, i)].body
        ELSE L[CaptureStart(L, i)]
ToolInputOf(L) ==
    LET i == MinOf(ActionStarts(L)) IN RestOf(L, CaptureStart(L, i) + 1)

\* extractThought: /Thought:\s*([\s\S]*?)(?:\n[A-Z][^:]+:|$)/i. The capture
\* starts after the leftmost Thought label (at the next line that is not
\* blank when the label has no body: `\s*` runs over the line end) and ends
\* before the first later line that starts with a letter and has a colon in
\* it or after it, else at the end; no Thought label gives the empty thought.
\* The thought is the sequence of the lines captured.
ThoughtStop(L, s) ==
    LET stops == {j \in DOMAIN L :
                     /\ j > s
                     /\ (L[j].label # "none" \/ L[j].body # "")
                     /\ \E k \in DOMAIN L : k >= j /\ L[k].label # "none"}
    IN  IF stops = {} THEN Len(L) + 1 ELSE MinOf(stops)
ExtractThought(L) ==
    LET found == {i \in DOMAIN L : Labelled(L[i], "thought")}
    IN  IF found = {} THEN <<>>
        ELSE LET i == MinOf(found)
                 s == CaptureStart(L, i)
             IN  IF s = 0 THEN <<>>
                 ELSE IF s = i
                 THEN TrimText(<<[label |-> "none", lower |-> FALSE,
                                  body |-> L[i].body]>>
                                   \o SubSeq(L, i + 1, ThoughtStop(L, i) - 1))
                 ELSE TrimText(SubSeq(L, s, ThoughtStop(L, s) - 1))

\* What the patterns find in a trimmed text.
MatchesOf(L) ==
    [final |-> FinalMatches(L), action |-> ActionMatches(L),
     thought |-> ExtractThought(L),
     toolName |-> IF ActionMatches(L) THEN ToolNameOf(L) ELSE "",
     toolInput |-> IF ActionMatches(L) THEN ToolInputOf(L) ELSE "",
     text |-> IF FinalMatches(L)
              THEN RestOf(L, MinOf(FinalLabels(L))) ELSE ""]

\* parseReactOutput(output), from the text.
ParseText(output) == ParseReactOutput(MatchesOf(TrimText(output)))

\* parseReactOutput is handed a text.
ParseInit ==
    /\ maxTurnsCfg = <<>> /\ requests = 1
    /\ AgentFresh
    /\ parseIn \in Texts
    /\ parseOut = NotParsed
    /\ PathIdle
    /\ FsIdle
    /\ NodeIdle
    /\ MoreIdle

\* parseReactOutput runs on it.
ParseStep ==
    /\ parseOut.kind = "none"
    /\ parseOut' = ParseText(parseIn)
    /\ UNCHANGED <<agentVars, parseIn, pathVars, fsVars, nodeVars, moreVars>>

ParseNext == ParseStep

SpecParse == ParseInit /\ [][ParseNext]_vars

(***************************************************************************)
(* resolveRepoPath and pathFromRepoRoot. An absolute path is the sequence  *)
(* of its segments (<<>> is "/"); a candidate is a text, given by whether  *)
(* it starts with the separator and by the segments between separators,    *)
(* which may be empty, ".", "..", a name, or a name with a blank at one    *)
(* end (" x", "x ") or nothing but a blank (" ").                          *)
(***************************************************************************)
SegNames == {"", ".", "..", "src", " x", "x ", " ", "repo-evil"}
Candidates ==
    {[abs |-> a, segs |-> ss] :
        a \in BOOLEAN, ss \in UNION {[1 .. n -> SegNames] : n \in 0 .. MaxSegs}}
\* ctx.cwd: the filesystem root, a directory under it, one two levels down.
Roots == {<<>>, <<"repo">>, <<"srv", "repo">>}

\* String.prototype.trim at the two ends of a segment.
TrimLeft(n) == CASE n = " x" -> "x" [] n = " " -> "" [] OTHER -> n
TrimRight(n) == CASE n = "x " -> "x" [] n = " " -> "" [] OTHER -> n
\* inputPath.trim(): blanks go from the start of the first segment (unless
\* the text starts with the separator) and from the end of the last one.
TrimCand(c) ==
    LET lead == IF ~c.abs /\ c.segs # <<>>
                THEN [c.segs EXCEPT ![1] = TrimLeft(@)] ELSE c.segs
        both == IF lead # <<>>
                THEN [lead EXCEPT ![Len(lead)] = TrimRight(@)] ELSE lead
    IN  [abs |-> c.abs, segs |-> both]
\* The text is the empty string.
IsEmptyText(c) == ~c.abs /\ c.segs \in {<<>>, <<"">>}
\* inputPath.trim().length ? inputPath.trim() : '.'
NormalizedCand(c) == IF IsEmptyText(TrimCand(c)) THEN DotPath ELSE TrimCand(c)
\* normalized.startsWith('.')
StartsWithDot(c) == ~c.abs /\ c.segs # <<>> /\ Head(c.segs) \in {".", ".."}
\* A candidate handed to path.resolve as it is.
PrefixedNever(c) == c
\* normalized.startsWith('.') ? normalized : `./${normalized}`
Prefixed(c) ==
    IF StartsWithDot(c) THEN c
    ELSE [abs |-> FALSE,
          segs |-> <<".">> \o (IF c.abs THEN <<"">> ELSE <<>>) \o c.segs]

\* path.resolve walks the segments from a base: empty and "." segments are
\* dropped, ".." drops the last segment (and stays at "/").
RECURSIVE ResolveSegs(_, _)
ResolveSegs(base, segs) ==
    IF segs = <<>> THEN base
    ELSE LET n == Head(segs)
             next == IF n \in {"", "."} THEN base
                     ELSE IF n = ".."
                     THEN SubSeq(base, 1, Len(base) - 1)
                     ELSE Append(base, n)
         IN  ResolveSegs(next, Tail(segs))
\* path.resolve(root, candidate): an absolute candidate replaces the root.
PathResolve(root, c) ==
    IF c.abs THEN ResolveSegs(<<>>, c.segs) ELSE ResolveSegs(root, c.segs)

\* Whether one name's text starts with another's.
NameStartsWith(n, p) == n = p \/ (p = "repo" /\ n = "repo-evil")
\* A check by target.startsWith(root), with no separator.
StartsWithRoot(target, root) ==
    \/ root = <<>>
    \/ /\ Len(target) >= Len(root)
       /\ SubSeq(target, 1, Len(root) - 1) = SubSeq(root, 1, Len(root) - 1)
       /\ NameStartsWith(target[Len(root)], root[Len(root)])
\* target.startsWith(`${root}${path.sep}`): for the root "/" that prefix is
\* "//", which no resolved path starts with.
StartsWithRootSep(target, root) ==
    /\ root # <<>>
    /\ Len(target) > Len(root)
    /\ SubSeq(target, 1, Len(root)) = root

\* resolveRepoPath(inputPath, ctx)
ResolveRepoPath(inputPath, root) ==
    LET target == PathResolve(root, Prefixed(NormalizedCand(inputPath)))
    IN  IF target # root /\ ~StartsWithRootSep(target, root)
        THEN [ok |-> FALSE, error |-> ACCESS_VIOLATION, path |-> <<>>]
        ELSE [ok |-> TRUE, error |-> "", path |-> target]

\* path.relative(from, to): up from `from` to the common part, then down.
CommonLen(a, b) ==
    MaxOf({k \in 0 .. Len(a) :
              k <= Len(b) /\ SubSeq(a, 1, k) = SubSeq(b, 1, k)})
PathRelative(from, to) ==
    [i \in 1 .. (Len(from) - CommonLen(from, to)) |-> ".."]
        \o SubSeq(to, CommonLen(from, to) + 1, Len(to))
\* A formatter that leaves the root's display path empty.
PathFromRepoRootBare(absolutePath, root) ==
    [abs |-> FALSE, segs |-> PathRelative(root, absolutePath)]
\* pathFromRepoRoot: path.relative(root, absolutePath) || '.'
PathFromRepoRoot(absolutePath, root) ==
    IF PathRelative(root, absolutePath) = <<>> THEN DotPath
    ELSE [abs |-> FALSE, segs |-> PathRelative(root, absolutePath)]

\* A candidate is handed to resolveRepoPath under some root.
PathInit ==
    /\ maxTurnsCfg = <<>> /\ requests = 1
    /\ AgentFresh
    /\ ParseIdle
    /\ cwd \in Roots
    /\ pathIn \in Candidates
    /\ pathOut = NoPath
    /\ displayPath = DotPath
    /\ pathAgain = NoPath
    /\ pathPc = "start"
    /\ FsIdle
    /\ NodeIdle
    /\ MoreIdle

\* resolveRepoPath(pathIn, ctx) returns or throws.
PathResolves ==
    /\ pathPc = "start"
    /\ pathOut' = ResolveRepoPath(pathIn, cwd)
    /\ pathPc' = IF pathOut'.ok THEN "resolved" ELSE "rejected"
    /\ UNCHANGED <<agentVars, parseVars, fsVars, nodeVars, moreVars>>
    /\ UNCHANGED <<cwd, pathIn, displayPath, pathAgain>>

\* pathFromRepoRoot formats the accepted path.
PathFormats ==
    /\ pathPc = "resolved"
    /\ displayPath' = PathFromRepoRoot(pathOut.path, cwd)
    /\ pathPc' = "formatted"
    /\ UNCHANGED <<agentVars, parseVars, fsVars, nodeVars, moreVars>>
    /\ UNCHANGED <<cwd, pathIn, pathOut, pathAgain>>

\* The display path is handed to resolveRepoPath again.
PathResolvesAgain ==
    /\ pathPc = "formatted"
    /\ pathAgain' = ResolveRepoPath(displayPath, cwd)
    /\ pathPc' = "again"
    /\ UNCHANGED <<agentVars, parseVars, fsVars, nodeVars, moreVars>>
    /\ UNCHANGED <<cwd, pathIn, pathOut, displayPath>>

PathNext == PathResolves \/ PathFormats \/ PathResolvesAgain

SpecPath == PathInit /\ [][PathNext]_vars

(***************************************************************************)
(* The file tools list_files, read_file, write_file and file_search on a   *)
(* filesystem of directories and files. Every fs call of an invocation is  *)
(* noted with its path; of fs.mkdir(directory, {recursive: true}) the      *)
(* directories it creates are noted (one that exists is left as it is).    *)
(* Of the input path the invocation keeps where it points: the path it     *)
(* resolves to from the root (a leading separator being no more than a     *)
(* separator, as in resolveRepoPath).                                      *)
(***************************************************************************)
\* The paths handed to the tools: none, the root, a file, a directory, a
\* file in it, a file in a new directory, a file under a file, the parent,
\* the directory next to the root (straight and by a detour), a file in it,
\* and paths that start with the separator.
Rel(segs) == [abs |-> FALSE, segs |-> segs]
Abs(segs) == [abs |-> TRUE, segs |-> segs]
FsCandidates ==
    {Rel(<<>>), Rel(<<".">>), Rel(<<"f">>), Rel(<<"src">>),
     Rel(<<"src", "f">>), Rel(<<"new", "f">>), Rel(<<"f", "f">>),
     Rel(<<"..">>), Rel(<<"..", "repo-evil">>),
     Rel(<<"src", "..", "..", "repo-evil">>),
     Rel(<<"..", "repo-evil", "f">>),
     Abs(<<>>), Abs(<<"src", "f">>), Abs(<<"..", "repo-evil", "f">>)}
IGNORED_DIRS == {".git", "node_modules", "dist", "build", ".next", ".turbo"}
PATH_REQUIRED == "Please provide a file path relative to the repository root."
IS_DIRECTORY == "Cannot read a directory. Provide a file path."
INVALID_INPUT == "Invalid JSON."

\* path.dirname of an absolute path.
Dirname(p) == SubSeq(p, 1, Len(p) - 1)
\* The paths from "/" down to p.
Ancestors(p) == {SubSeq(p, 1, k) : k \in 0 .. Len(p)}
\* The filesystem the tools start on: the root with a file and a directory
\* holding a file, and next to the root a directory whose name starts with
\* the root's name.
SiblingDirs(root) ==
    IF root = <<>> THEN {} ELSE {Append(Dirname(root), "repo-evil")}
InitialDirs(root) ==
    Ancestors(root) \cup {Append(root, "src")} \cup SiblingDirs(root)
InitialFiles(root) ==
    {Append(root, "f"), root \o <<"src", "f">>}
        \cup {Append(d, "f") : d \in SiblingDirs(root)}
\* fs.readdir(p): the entries of a directory.
Entries(dirs, files, p) ==
    {q \in dirs \cup files : Len(q) = Len(p) + 1 /\ Dirname(q) = p}

Access(op, p) == [op |-> op, path |-> p]
FsFailed(msg, accessed, dirs, files) ==
    [ok |-> FALSE, error |-> msg, accessed |-> accessed,
     dirs |-> dirs, files |-> files]
FsDone(accessed, dirs, files) ==
    [ok |-> TRUE, error |-> "", accessed |-> accessed,
     dirs |-> dirs, files |-> files]

\* list_files.execute
ListFilesRun(input, root, dirs, files) ==
    LET r == ResolveRepoPath(NormalizedCand(input), root)
    IN  IF ~r.ok THEN FsFailed(r.error, {}, dirs, files)
        ELSE IF r.path \notin dirs
        THEN FsFailed("ENOENT", {Access("readdir", r.path)}, dirs, files)
        ELSE FsDone({Access("readdir", r.path)}
                        \cup {Access("stat", q) :
                                 q \in Entries(dirs, files, r.path)},
                    dirs, files)

\* read_file.execute
ReadFileRun(input, root, dirs, files) ==
    LET r == ResolveRepoPath(TrimCand(input), root)
    IN  IF IsEmptyText(TrimCand(input))
        THEN FsFailed(PATH_REQUIRED, {}, dirs, files)
        ELSE IF ~r.ok THEN FsFailed(r.error, {}, dirs, files)
        ELSE IF r.path \notin dirs \cup files
        THEN FsFailed("ENOENT", {Access("stat", r.path)}, dirs, files)
        ELSE IF r.path \in dirs
        THEN FsFailed(IS_DIRECTORY, {Access("stat", r.path)}, dirs, files)
        ELSE FsDone({Access("stat", r.path), Access("readFile", r.path)},
                    dirs, files)

\* write_file.execute on a payload that parses (valid) or does not.
WriteFileRun(valid, input, root, dirs, files) ==
    LET r == ResolveRepoPath(input, root)
        directory == Dirname(r.path)
        made == Ancestors(directory) \ dirs
        mkdirs == {Access("mkdir", d) : d \in made}
    IN  IF ~valid THEN FsFailed(INVALID_INPUT, {}, dirs, files)
        ELSE IF ~r.ok THEN FsFailed(r.error, {}, dirs, files)
        ELSE IF Ancestors(directory) \cap files # {}
        THEN FsFailed("ENOTDIR", {}, dirs, files)
        ELSE IF r.path \in dirs
        THEN FsFailed("EISDIR", mkdirs \cup {Access("writeFile", r.path)},
                      dirs \cup made, files)
        ELSE FsDone(mkdirs \cup {Access("writeFile", r.path)},
                    dirs \cup made, files \cup {r.path})

\* collectMatches: the directories the walk reads, from the search root
\* down, not entering the ignored directories; every file in them is read
\* (the walk is cut short once MAX_MATCHES results are collected).
Walked(start, dirs) ==
    {d \in dirs :
        /\ IsPrefixOf(start, d)
        /\ \A k \in (Len(start) + 1) .. Len(d) : d[k] \notin IGNORED_DIRS}
\* file_search.execute on a payload and pattern that are valid or not; a
\* payload without a path searches from '.'.
FileSearchRun(valid, input, root, dirs, files) ==
    LET r == ResolveRepoPath(IF IsEmptyText(TrimCand(input))
                             THEN DotPath ELSE TrimCand(input), root)
        read == {f \in files : Dirname(f) \in Walked(r.path, dirs)}
    IN  IF ~valid THEN FsFailed(INVALID_INPUT, {}, dirs, files)
        ELSE IF ~r.ok THEN FsFailed(r.error, {}, dirs, files)
        ELSE IF r.path \notin dirs
        THEN FsDone({Access("readdir", r.path)}, dirs, files)
        ELSE FsDone({Access("readdir", d) : d \in Walked(r.path, dirs)}
                        \cup {Access("stat", f) : f \in read}
                        \cup {Access("readFile", f) : f \in read},
                    dirs, files)

\* The file tools are about to be run under some root.
FsInit ==
    /\ maxTurnsCfg = <<>> /\ requests = 1
    /\ AgentFresh
    /\ ParseIdle
    /\ cwd \in Roots
    /\ pathIn = DotPath
    /\ pathOut = NoPath
    /\ displayPath = DotPath
    /\ pathAgain = NoPath
    /\ pathPc = "start"
    /\ fsDirs = InitialDirs(cwd)
    /\ fsFiles = InitialFiles(cwd)
    /\ fsLast = NoFsCall
    /\ fsCalls = 0
    /\ NodeIdle
    /\ MoreIdle

\* One invocation of a file tool, from its input to its outcome.
FsSettles(tool, valid, input, out) ==
    /\ fsCalls < MaxFsCalls
    /\ fsCalls' = fsCalls + 1
    /\ fsDirs' = out.dirs
    /\ fsFiles' = out.files
    /\ fsLast' = [tool |-> tool, valid |-> valid,
                  target |-> ResolveSegs(cwd, TrimCand(input).segs),
                  ok |-> out.ok, error |-> out.error,
                  accessed |-> out.accessed]
    /\ UNCHANGED <<agentVars, parseVars, pathVars, nodeVars, moreVars>>

ListFiles(input) ==
    FsSettles("list_files", TRUE, input,
              ListFilesRun(input, cwd, fsDirs, fsFiles))
ReadFile(input) ==
    FsSettles("read_file", TRUE, input,
              ReadFileRun(input, cwd, fsDirs, fsFiles))
WriteFile(valid, input) ==
    FsSettles("write_file", valid, input,
              WriteFileRun(valid, input, cwd, fsDirs, fsFiles))
FileSearch(valid, input) ==
    FsSettles("file_search", valid, input,
              FileSearchRun(valid, input, cwd, fsDirs, fsFiles))

FsNext ==
    \/ \E c \in FsCandidates : ListFiles(c)
    \/ \E c \in FsCandidates : ReadFile(c)
    \/ \E c \in FsCandidates : WriteFile(TRUE, c)
    \/ WriteFile(FALSE, DotPath)
    \/ \E c \in FsCandidates : FileSearch(TRUE, c)
    \/ FileSearch(FALSE, DotPath)

SpecFs == FsInit /\ [][FsNext]_vars

(***************************************************************************)
(* The scripting tools node and node_user_visible (runUserNodeSnippet). A  *)
(* script is a sequence of statements over what the sandbox hands it:      *)
(*   exit     process.exit(code), or process.exit() when no code is given  *)
(*   tryExit  try { process.exit(code) } catch (e) { console.log(e.message) } *)
(*   log      console.log('x')                                             *)
(*   throw    throw new Error('boom')                                      *)
(*   hostExit require('node:process').exit(code): the sandbox's require is *)
(*            the host's module loader, and the module it loads here is    *)
(*            the host's own process object                                *)
(*   setGlobal    globalThis.g = 1                                         *)
(*   logGlobal    console.log(typeof g)                                    *)
(*   setTimeout   setTimeout(() => {}, 1000), not awaited                  *)
(*   setInterval  setInterval(() => {}, 1000)                              *)
(* The sandbox's setTimeout and setInterval are the host's own functions   *)
(* (system.ts:77-80): a timer lives in the host's event loop until it has  *)
(* fired (a timeout), is cleared, or the host is gone.                     *)
(***************************************************************************)
ExitArgs == {<<>>, <<0>>, <<1>>}
Stmts ==
    {[op |-> o, code |-> c] : o \in {"exit", "tryExit", "hostExit"},
                              c \in ExitArgs}
        \cup {[op |-> o, code |-> <<>>] :
                o \in {"log", "throw", "setGlobal", "logGlobal",
                       "setTimeout", "setInterval"}}
Scripts == UNION {[1 .. n -> Stmts] : n \in 0 .. MaxStmts}
EMPTY_SNIPPET == "Provide JavaScript code to execute."

\* createSandboxProcess(ctx).exit: (code = 0) => { throw new Error(...) }
SandboxExit(code) ==
    [threw |-> <<"process.exit(" \o ToString(code)
                    \o ") is not allowed inside the node tool.">>,
     hostExit |-> <<>>]
\* The argument the stub sees: the default 0 when none is given.
ExitCode(arg) == IF arg = <<>> THEN 0 ELSE arg[1]

\* What an invocation starts from: a console recorder with no lines and a
\* sandbox object (made into the context's global object) with no property
\* beyond the eight it is created with.
FreshSandbox ==
    [logs |-> <<>>, exitCalls |-> <<>>, threw |-> <<>>, hostExit |-> <<>>,
     globals |-> {}, started |-> {}]

\* The script runs statement by statement until one throws or the process
\* is gone: the console lines recorded, the calls of the sandbox's
\* process.exit with what each did, the error thrown, the host's exit code,
\* the globals set and the timers started.
RECURSIVE RunStmts(_, _)
RunStmts(stmts, st) ==
    IF stmts = <<>> \/ st.threw # <<>> \/ st.hostExit # <<>> THEN st
    ELSE LET stmt == Head(stmts)
             code == ExitCode(stmt.code)
             call == SandboxExit(code)
             noted == [st EXCEPT !.exitCalls =
                          Append(@, [code |-> code, threw |-> call.threw])]
             after ==
                 CASE stmt.op = "exit" ->
                        [noted EXCEPT !.threw = call.threw,
                                      !.hostExit = call.hostExit]
                   [] stmt.op = "tryExit" ->
                        [noted EXCEPT !.logs = @ \o call.threw,
                                      !.hostExit = call.hostExit]
                   [] stmt.op = "log" -> [st EXCEPT !.logs = Append(@, "x")]
                   [] stmt.op = "throw" -> [st EXCEPT !.threw = <<"boom">>]
                   [] stmt.op = "hostExit" -> [st EXCEPT !.hostExit = <<code>>]
                   [] stmt.op = "setGlobal" ->
                        [st EXCEPT !.globals = @ \cup {"g"}]
                   [] stmt.op = "logGlobal" ->
                        [st EXCEPT !.logs =
                            Append(@, IF "g" \in st.globals
                                      THEN "number" ELSE "undefined")]
                   [] stmt.op = "setTimeout" ->
                        [st EXCEPT !.started = @ \cup {"timeout"}]
                   [] stmt.op = "setInterval" ->
                        [st EXCEPT !.started = @ \cup {"interval"}]
         IN  RunStmts(Tail(stmts), after)

\* runUserNodeSnippet(code, ctx)
RunUserNodeSnippet(code) ==
    IF code = <<>>
    THEN [FreshSandbox EXCEPT !.threw = <<EMPTY_SNIPPET>>]
    ELSE RunStmts(code, FreshSandbox)

\* node.execute: the console section, when there are lines, and the result
\* section (the scripts of the model return nothing).
NodeText(run) ==
    (IF run.logs # <<>> THEN <<"Console output:">> \o run.logs ELSE <<>>)
        \o <<"Result:", "undefined">>
\* node_user_visible.execute: the console lines, else the formatted result.
NodeUserVisibleText(run) ==
    IF run.logs # <<>> THEN run.logs ELSE <<"undefined">>

\* The scripting tools are about to be run.
NodeInit ==
    /\ maxTurnsCfg = <<>> /\ requests = 1
    /\ AgentFresh
    /\ ParseIdle
    /\ PathIdle
    /\ FsIdle
    /\ NodeIdle
    /\ MoreIdle

\* One invocation of a scripting tool: the script runs to its end, to the
\* error it throws, or to the end of the host process. The timers it
\* started and did not clear stay in the host's event loop.
SnippetSettles(tool, code, run, text) ==
    /\ hostAlive
    /\ nodeCalls < MaxNodeCalls
    /\ nodeCalls' = nodeCalls + 1
    /\ snippet' = code
    /\ hostAlive' = (run.hostExit = <<>>)
    /\ timers' = IF run.hostExit # <<>> THEN {}
                 ELSE timers \cup {[owner |-> nodeCalls + 1, kind |-> k] :
                                      k \in run.started}
    /\ snippetOut' =
          [tool |-> tool,
           outcome |-> IF run.hostExit # <<>> THEN "host exited"
                       ELSE IF run.threw # <<>> THEN "rejected"
                       ELSE "resolved",
           text |-> IF run.hostExit # <<>> THEN <<>>
                    ELSE IF run.threw # <<>> THEN run.threw
                    ELSE text,
           exitCalls |-> run.exitCalls,
           hostExit |-> run.hostExit]
    /\ UNCHANGED <<agentVars, parseVars, pathVars, fsVars, moreVars>>

RunNode(code) ==
    SnippetSettles("node", code, RunUserNodeSnippet(code),
                   NodeText(RunUserNodeSnippet(code)))
RunNodeUserVisible(code) ==
    SnippetSettles("node_user_visible", code, RunUserNodeSnippet(code),
                   NodeUserVisibleText(RunUserNodeSnippet(code)))

\* A pending timeout of the host fires (its callback does nothing) and is
\* gone; an interval stays until it is cleared.
TimeoutFires(t) ==
    /\ hostAlive
    /\ t \in timers
    /\ t.kind = "timeout"
    /\ timers' = timers \ {t}
    /\ UNCHANGED <<hostAlive, snippet, snippetOut, nodeCalls>>
    /\ UNCHANGED <<agentVars, parseVars, pathVars, fsVars, moreVars>>

NodeNext ==
    \/ \E code \in Scripts : RunNode(code)
    \/ \E code \in Scripts : RunNodeUserVisible(code)
    \/ \E t \in timers : TimeoutFires(t)

SpecNode == NodeInit /\ [][NodeNext]_vars

(***************************************************************************)
(* write_file followed by read_file of the same path. Contents are a text  *)
(* (a JavaScript string) given by its length in UTF-16 code units, whether *)
(* its characters take three bytes each in UTF-8 or one (wide), and        *)
(* whether it holds a surrogate without its pair (lone), which the UTF-8   *)
(* encoder of fs.writeFile replaces by U+FFFD.                             *)
(***************************************************************************)
ContentLengths ==
    {0, 1, READ_CHAR_LIMIT, READ_CHAR_LIMIT + 1, READ_BYTE_LIMIT \div 3 + 1,
     READ_BYTE_LIMIT, READ_BYTE_LIMIT + 1}
Contents ==
    {c \in [text : {"t"}, length : ContentLengths, wide : BOOLEAN,
            lone : BOOLEAN] : c.lone => c.length > 0}

\* fs.writeFile(target, contents, 'utf8') and fs.readFile(target, 'utf8'):
\* the text the file gives back.
WriteUtf8(content) ==
    IF content.lone
    THEN [content EXCEPT !.text = "t with U+FFFD", !.lone = FALSE]
    ELSE content
\* stat.size of the file (U+FFFD takes three bytes).
ByteSize(stored) ==
    IF stored.wide THEN 3 * stored.length
    ELSE IF stored.text = "t with U+FFFD" THEN stored.length + 2
    ELSE stored.length

\* A read that returns the file as it is.
ReadOutRaw(stored) == [kind |-> "contents", content |-> stored]
\* read_file.execute, from the stat on: the 'too large' text, the contents
\* cut to READ_CHAR_LIMIT characters with the marker, or the contents.
ReadOut(stored) ==
    IF ByteSize(stored) > READ_BYTE_LIMIT
    THEN [kind |-> "too large", content |-> NoContent]
    ELSE IF stored.length > READ_CHAR_LIMIT
    THEN [kind |-> "truncated",
          content |-> [stored EXCEPT !.length = READ_CHAR_LIMIT]]
    ELSE [kind |-> "contents", content |-> stored]

\* Contents are about to be written to a path and read back.
RoundTripInit ==
    /\ maxTurnsCfg = <<>> /\ requests = 1
    /\ AgentFresh
    /\ ParseIdle
    /\ cwd \in Roots
    /\ pathIn \in FsCandidates
    /\ pathOut = NoPath
    /\ displayPath = DotPath
    /\ pathAgain = NoPath
    /\ pathPc = "start"
    /\ fsDirs = InitialDirs(cwd)
    /\ fsFiles = InitialFiles(cwd)
    /\ fsLast = NoFsCall
    /\ fsCalls = 0
    /\ NodeIdle
    /\ WebIdle
    /\ rtContent \in Contents
    /\ rtStored = NoContent
    /\ rtRead = NoRead
    /\ rtPc = "start"
    /\ SearchIdle

\* write_file.execute on {"path": pathIn, "contents": rtContent}
RoundTripWrites ==
    LET out == WriteFileRun(TRUE, pathIn, cwd, fsDirs, fsFiles)
    IN  /\ rtPc = "start"
        /\ rtPc' = IF out.ok THEN "written" ELSE "failed"
        /\ rtStored' = IF out.ok THEN WriteUtf8(rtContent) ELSE NoContent
        /\ fsDirs' = out.dirs
        /\ fsFiles' = out.files
        /\ fsCalls' = fsCalls + 1
        /\ fsLast' = [tool |-> "write_file", valid |-> TRUE,
                      target |-> ResolveSegs(cwd, TrimCand(pathIn).segs),
                      ok |-> out.ok, error |-> out.error,
                      accessed |-> out.accessed]
        /\ UNCHANGED <<rtContent, rtRead>>
        /\ UNCHANGED <<agentVars, parseVars, pathVars, nodeVars, webVars,
                       searchVars>>

\* read_file.execute on pathIn
RoundTripReads ==
    LET out == ReadFileRun(pathIn, cwd, fsDirs, fsFiles)
    IN  /\ rtPc = "written"
        /\ rtPc' = "read"
        /\ rtRead' = IF out.ok THEN ReadOut(rtStored)
                     ELSE [kind |-> "failed", content |-> NoContent]
        /\ fsCalls' = fsCalls + 1
        /\ fsLast' = [tool |-> "read_file", valid |-> TRUE,
                      target |-> ResolveSegs(cwd, TrimCand(pathIn).segs),
                      ok |-> out.ok, error |-> out.error,
                      accessed |-> out.accessed]
        /\ UNCHANGED <<fsDirs, fsFiles, rtContent, rtStored>>
        /\ UNCHANGED <<agentVars, parseVars, pathVars, nodeVars, webVars,
                       searchVars>>

RoundTripNext == RoundTripWrites \/ RoundTripReads

SpecRoundTrip == RoundTripInit /\ [][RoundTripNext]_vars

(***************************************************************************)
(* file_search in full: parseFileSearchInput, buildRegex, resolveRepoPath  *)
(* and the walk of collectMatches with searchFileForPattern, on a tree     *)
(* under the root:                                                         *)
(*     a   priv/   src/b   src/dist/d   .git/c                             *)
(* A file is given by what the search finds in it: "none", "one", "half"   *)
(* or "full" (that many of its lines match, MaxFileLines for "full"),      *)
(* "big" (larger than MAX_FILE_BYTES), "unreadable" (fs.readFile fails) or *)
(* "other" (an entry that is neither a file nor a directory). A directory  *)
(* may be locked (fs.readdir fails). fs.readdir returns the entries in no  *)
(* promised order: by name, or the other way round. Every fs call is noted *)
(* in the trace with the number of results collected when it was made.     *)
(***************************************************************************)
FileKinds == {"none", "one", "half", "full", "big", "unreadable", "other"}
SearchFiles == {<<"a">>, <<"src", "b">>, <<"src", "dist", "d">>, <<".git", "c">>}
SearchDirs == {<<>>, <<"priv">>, <<"src">>, <<"src", "dist">>, <<".git">>}
Trees ==
    {[kinds |-> k, locked |-> l, order |-> o] :
        k \in {f \in [SearchFiles -> FileKinds] :
                  /\ f[<<"src", "b">>] \in {"none", "half", "full", "unreadable"}
                  /\ f[<<"src", "dist", "d">>] \in {"none", "one"}
                  /\ f[<<".git", "c">>] \in {"none", "one"}},
        l \in {{}, {<<"priv">>}},
        o \in {"asc", "desc"}}
\* The payloads: not JSON, no pattern, a pattern new RegExp rejects, or a
\* pattern with a sub-root (none given: path is empty).
SearchPayloads == {"badjson", "nopattern", "badregex", "ok"}
SearchRoots ==
    {Rel(<<>>), Rel(<<"src">>), Rel(<<".git">>), Rel(<<"src", "dist">>),
     Rel(<<"priv">>), Rel(<<"a">>), Rel(<<"missing">>), Rel(<<"..">>)}
SearchInputs ==
    {[payload |-> p, path |-> c] : p \in SearchPayloads, c \in SearchRoots}
NO_MATCHES == "No matches found."

\* How many lines of a file match.
MatchCount(kind) ==
    CASE kind = "one" -> 1
      [] kind = "half" -> MaxFileLines \div 2
      [] kind = "full" -> MaxFileLines
      [] OTHER -> 0

Reverse(q) == [i \in 1 .. Len(q) |-> q[Len(q) + 1 - i]]
\* fs.readdir(current, {withFileTypes: true}) of a directory of the tree.
Listing(tree, rel) ==
    LET byName ==
            CASE rel = <<>> -> <<".git", "a", "priv", "src">>
              [] rel = <<"src">> -> <<"b", "dist">>
              [] rel = <<"src", "dist">> -> <<"d">>
              [] rel = <<".git">> -> <<"c">>
              [] OTHER -> <<>>
    IN  IF tree.order = "asc" THEN byName ELSE Reverse(byName)
\* The error fs.readdir throws, if it does.
ReaddirError(tree, rel) ==
    IF rel \in tree.locked THEN "EACCES"
    ELSE IF rel \in SearchFiles THEN "ENOTDIR"
    ELSE IF rel \notin SearchDirs THEN "ENOENT"
    ELSE ""

\* shouldSkipDir
ShouldSkipDir(entry) == entry \in IGNORED_DIRS

\* A result line: `<path>:<n>: <line>`, `<path>:error reading <file>: ...`
\* or `<path>: error reading directory: ...`, the path from the root.
RECURSIVE JoinPath(_)
JoinPath(segs) ==
    IF segs = <<>> THEN ""
    ELSE IF Len(segs) = 1 THEN segs[1]
    ELSE segs[1] \o "/" \o JoinPath(Tail(segs))
MatchLine(rel, n) ==
    [path |-> rel, error |-> FALSE,
     text |-> JoinPath(rel) \o ":" \o ToString(n) \o ": x"]
FileErrorLine(root, rel) ==
    [path |-> rel, error |-> TRUE,
     text |-> JoinPath(rel) \o ":error reading /"
                  \o JoinPath(root \o rel) \o ": EACCES"]
DirErrorLine(rel, code) ==
    [path |-> rel, error |-> TRUE,
     text |-> JoinPath(rel) \o ": error reading directory: " \o code]

\* searchFileForPattern: the matches of a file (or the one line that says
\* it could not be read) and the fs calls made for it.
SearchFileForPattern(tree, root, rel) ==
    LET kind == tree.kinds[rel]
    IN  IF kind = "big"
        THEN [matches |-> <<>>, calls |-> <<"stat">>]
        ELSE IF kind = "unreadable"
        THEN [matches |-> <<FileErrorLine(root, rel)>>,
              calls |-> <<"stat", "readFile">>]
        ELSE [matches |-> [n \in 1 .. MatchCount(kind) |-> MatchLine(rel, n)],
              calls |-> <<"stat", "readFile">>]

\* A cap that is never reached.
CapNever(results) == FALSE
\* results.length >= MAX_MATCHES
CapReached(results) == Len(results) >= MAX_MATCHES
\* for (const match of fileMatches) { results.push(...); if (results.length
\* >= MAX_MATCHES) break; }
PushMatches(results, matches) ==
    LET stops == {k \in 1 .. Len(matches) :
                     CapReached(results \o SubSeq(matches, 1, k))}
    IN  IF stops = {} THEN results \o matches
        ELSE results \o SubSeq(matches, 1, MinOf(stops))

Noted(op, rel, st) == [op |-> op, path |-> rel, had |-> Len(st.results)]

\* The for loop over the entries of one directory.
RECURSIVE ScanEntries(_, _, _, _, _)
ScanEntries(tree, root, current, entries, st) ==
    IF entries = <<>> THEN st
    ELSE LET entry == Head(entries)
             rel == Append(current, entry)
             found == SearchFileForPattern(tree, root, rel)
             searched ==
                 [st EXCEPT
                     !.results = PushMatches(@, found.matches),
                     !.trace = @ \o [i \in 1 .. Len(found.calls) |->
                                         Noted(found.calls[i], rel, st)]]
         IN  IF rel \in SearchDirs
             THEN ScanEntries(tree, root, current, Tail(entries),
                              IF ShouldSkipDir(entry) THEN st
                              ELSE [st EXCEPT !.queue = Append(@, rel)])
             ELSE IF tree.kinds[rel] = "other"
             THEN ScanEntries(tree, root, current, Tail(entries), st)
             ELSE IF CapReached(searched.results) THEN searched
             ELSE ScanEntries(tree, root, current, Tail(entries), searched)

\* collectMatches: while (queue.length && results.length < MAX_MATCHES)
RECURSIVE CollectMatches(_, _, _)
CollectMatches(tree, root, st) ==
    IF st.queue = <<>> \/ CapReached(st.results) THEN st
    ELSE LET current == st.queue[Len(st.queue)]
             popped ==
                 [st EXCEPT !.queue = SubSeq(@, 1, Len(@) - 1),
                            !.trace = Append(@, Noted("readdir", current, st))]
         IN  IF ReaddirError(tree, current) # ""
             THEN CollectMatches(tree, root,
                     [popped EXCEPT !.results =
                         Append(@, DirErrorLine(current,
                                                ReaddirError(tree, current)))])
             ELSE CollectMatches(tree, root,
                     ScanEntries(tree, root, current, Listing(tree, current),
                                 popped))

\* A search that says nothing when it finds nothing.
SearchTextBare(results) == [i \in 1 .. Len(results) |-> results[i].text]
\* execute: 'No matches found.' or the lines (matches.join('\n'); the cut
\* of the joined text at MAX_OUTPUT_LENGTH characters is left out).
SearchText(results) ==
    IF results = <<>> THEN <<NO_MATCHES>>
    ELSE [i \in 1 .. Len(results) |-> results[i].text]

SearchRejected(message) ==
    [outcome |-> "rejected", error |-> message, results |-> <<>>,
     trace |-> <<>>, text |-> <<>>]
SearchResolved(st) ==
    [outcome |-> "resolved", error |-> "", results |-> st.results,
     trace |-> st.trace, text |-> SearchText(st.results)]
SearchFrom(rel) == [queue |-> <<rel>>, results |-> <<>>, trace |-> <<>>]

\* The sub-root of a payload: its path, trimmed, or '.' when there is none.
SubRoot(in) == IF IsEmptyText(TrimCand(in.path)) THEN DotPath
               ELSE TrimCand(in.path)
\* What parseFileSearchInput, buildRegex or resolveRepoPath throws, in the
\* order they are called; "" when none does.
SearchFault(in, root) ==
    IF in.payload = "badjson"
    THEN "Invalid JSON. Expect {\"pattern\": \"TODO\", \"path\": \"src\"}."
    ELSE IF in.payload = "nopattern" THEN "Missing \"pattern\" field."
    ELSE IF in.payload = "badregex"
    THEN "Invalid regular expression: /(/: Unterminated group"
    ELSE IF ~ResolveRepoPath(SubRoot(in), root).ok
    THEN ResolveRepoPath(SubRoot(in), root).error
    ELSE ""

\* An execute that walks the tree before it looks at its input.
FileSearchExecuteWalkFirst(in, root, tree) ==
    LET start == PathRelative(root, ResolveRepoPath(SubRoot(in), root).path)
    IN  IF SearchFault(in, root) # ""
        THEN [SearchRejected(SearchFault(in, root)) EXCEPT
                 !.trace = CollectMatches(tree, root, SearchFrom(<<>>)).trace]
        ELSE SearchResolved(CollectMatches(tree, root, SearchFrom(start)))
\* file_search.execute
FileSearchExecute(in, root, tree) ==
    LET start == PathRelative(root, ResolveRepoPath(SubRoot(in), root).path)
    IN  IF SearchFault(in, root) # ""
        THEN SearchRejected(SearchFault(in, root))
        ELSE SearchResolved(CollectMatches(tree, root, SearchFrom(start)))

\* A search is about to be made in some tree.
SearchInit ==
    /\ maxTurnsCfg = <<>> /\ requests = 1
    /\ AgentFresh
    /\ ParseIdle
    /\ cwd \in {<<"repo">>, <<"srv", "repo">>}
    /\ pathIn = DotPath
    /\ pathOut = NoPath
    /\ displayPath = DotPath
    /\ pathAgain = NoPath
    /\ pathPc = "start"
    /\ FsIdle
    /\ NodeIdle
    /\ WebIdle
    /\ RoundTripIdle
    /\ srchTree \in Trees
    /\ srchIn \in SearchInputs
    /\ srchOut = NoSearchOut

\* One invocation of file_search, from its input to its outcome.
SearchRuns ==
    /\ srchOut.outcome = "none"
    /\ srchOut' = FileSearchExecute(srchIn, cwd, srchTree)
    /\ UNCHANGED <<srchTree, srchIn>>
    /\ UNCHANGED <<agentVars, parseVars, pathVars, fsVars, nodeVars, webVars,
                   rtVars>>

SearchNext == SearchRuns

SpecSearch == SearchInit /\ [][SearchNext]_vars

(***************************************************************************)
(* The web tool (createWebTool.execute with runCurlRequest) under the      *)
(* signal of its run. spawn('curl', args, {signal: ctx.signal}) ties the   *)
(* child to the signal: when the signal is aborted while the child runs,   *)
(* the child is sent the kill signal and emits 'error' with an AbortError; *)
(* when the signal is aborted already, the same is queued for the next     *)
(* tick. A child is "running", "signalled" (sent the kill signal, not yet  *)
(* gone), "killed" (gone by it), "exited" (gone by itself), "unspawned"    *)
(* (curl could not be started, the 'error' event is due) or "failed".      *)
(***************************************************************************)
WebPayloads == {"empty", "badjson", "nourl", "ok"}
\* How curl ends by itself: its exit code, stdout and stderr.
CurlExits ==
    {[code |-> "0", stdout |-> "body", stderr |-> ""],
     [code |-> "0", stdout |-> " ", stderr |-> ""],
     [code |-> "6", stdout |-> "", stderr |-> "curl: (6) no host"],
     [code |-> "6", stdout |-> "", stderr |-> ""]}
\* How a child the kill signal was sent to ends: exitCode is null.
KilledExit == [code |-> "null", stdout |-> "", stderr |-> ""]

\* parseWebFetchInput
ParseWebFetchInput(payload) ==
    CASE payload = "empty" -> [ok |-> FALSE, error |-> "Provide JSON with at least a \"url\" field."]
      [] payload = "badjson" -> [ok |-> FALSE, error |-> "Invalid JSON. Provide {\"url\": \"https://example.com\"}."]
      [] payload = "nourl" -> [ok |-> FALSE, error |-> "Missing \"url\" string field."]
      [] OTHER -> [ok |-> TRUE, error |-> ""]

\* resolve and reject of the promise: a settled promise stays as it is.
ResolveWith(p, value) ==
    IF p.state = "pending"
    THEN [state |-> "resolved", value |-> value, code |-> ""] ELSE p
RejectWith(p, message, code) ==
    IF p.state = "pending"
    THEN [state |-> "rejected", value |-> message, code |-> code] ELSE p

\* A spawn that does not hand the signal to the child.
OnAbortUnwired(child, promise) == [child |-> child, promise |-> promise]
\* The abort listener spawn registers for {signal}: child.kill(), and when
\* the kill signal could be sent, 'error' is emitted with an AbortError,
\* which the 'error' handler turns into reject(error).
OnAbort(child, promise) ==
    IF child = "running"
    THEN [child |-> "signalled",
          promise |-> RejectWith(promise, "The operation was aborted", "ABORT_ERR")]
    ELSE [child |-> child, promise |-> promise]

\* child.on('close'): stdout on exit code 0, else stderr or the exit code.
OnClose(promise, exit) ==
    IF exit.code = "0" THEN ResolveWith(promise, exit.stdout)
    ELSE RejectWith(promise,
                    IF exit.stderr # "" THEN exit.stderr
                    ELSE "curl exited with code " \o exit.code, "")

\* String.trim of a body of the model.
TrimBody(body) == IF body = " " THEN "" ELSE body
\* What execute makes of the settled promise.
WebResult(promise) ==
    IF promise.state = "resolved"
    THEN IF TrimBody(promise.value) = "" THEN "curl succeeded for u but returned no body."
         ELSE TrimBody(promise.value)
    ELSE IF promise.code = "ENOENT" THEN "curl is not available in this environment."
    ELSE "Failed to fetch u: " \o promise.value

Last(q) == q[Len(q)]
SetLast(q, v) == [q EXCEPT ![Len(q)] = v]

\* The web tool is about to be run.
WebInit ==
    /\ maxTurnsCfg = <<>> /\ requests = 1
    /\ AgentFresh
    /\ ParseIdle
    /\ PathIdle
    /\ FsIdle
    /\ NodeIdle
    /\ MoreIdle

\* web.execute up to its await: the payload is parsed (execute throws on a
\* bad one) and curl is spawned, or cannot be (avail).
WebInvoke(payload, avail) ==
    /\ webPc # "awaiting"
    /\ webCalls < MaxWebCalls
    /\ webCalls' = webCalls + 1
    /\ IF ~ParseWebFetchInput(payload).ok
       THEN /\ webPc' = "settled"
            /\ webOut' = [kind |-> "threw",
                          text |-> ParseWebFetchInput(payload).error]
            /\ UNCHANGED <<webPromise, webChildren, webAbortTick>>
       ELSE /\ webPc' = "awaiting"
            /\ webPromise' = [state |-> "pending", value |-> "", code |-> ""]
            /\ webChildren' =
                  Append(webChildren, IF avail THEN "running" ELSE "unspawned")
            /\ webAbortTick' = webSignal
            /\ webOut' = NoWebOut
    /\ UNCHANGED webSignal
    /\ UNCHANGED <<agentVars, parseVars, pathVars, fsVars, nodeVars, rtVars,
                   searchVars>>

\* The 'error' event of a child that could not be spawned.
SpawnError ==
    /\ webChildren # <<>>
    /\ Last(webChildren) = "unspawned"
    /\ webChildren' = SetLast(webChildren, "failed")
    /\ webPromise' = RejectWith(webPromise, "spawn curl ENOENT", "ENOENT")
    /\ UNCHANGED <<webSignal, webPc, webAbortTick, webOut, webCalls>>
    /\ UNCHANGED <<agentVars, parseVars, pathVars, fsVars, nodeVars, rtVars,
                   searchVars>>

\* The abort spawn queued because the signal was aborted already.
AbortTick ==
    /\ webAbortTick
    /\ webAbortTick' = FALSE
    /\ webChildren' =
          SetLast(webChildren, OnAbort(Last(webChildren), webPromise).child)
    /\ webPromise' = OnAbort(Last(webChildren), webPromise).promise
    /\ UNCHANGED <<webSignal, webPc, webOut, webCalls>>
    /\ UNCHANGED <<agentVars, parseVars, pathVars, fsVars, nodeVars, rtVars,
                   searchVars>>

\* controller.abort() of the run (a newer request, or the unmount): the
\* abort listeners of the children run.
Cancel ==
    /\ ~webSignal
    /\ webSignal' = TRUE
    /\ IF webChildren = <<>>
       THEN UNCHANGED <<webChildren, webPromise>>
       ELSE /\ webChildren' =
                  SetLast(webChildren,
                          OnAbort(Last(webChildren), webPromise).child)
            /\ webPromise' = OnAbort(Last(webChildren), webPromise).promise
    /\ UNCHANGED <<webPc, webAbortTick, webOut, webCalls>>
    /\ UNCHANGED <<agentVars, parseVars, pathVars, fsVars, nodeVars, rtVars,
                   searchVars>>

\* curl ends by itself and 'close' is handled.
ChildFinishes(exit) ==
    /\ ~webAbortTick
    /\ webChildren # <<>>
    /\ Last(webChildren) = "running"
    /\ webChildren' = SetLast(webChildren, "exited")
    /\ webPromise' = OnClose(webPromise, exit)
    /\ UNCHANGED <<webSignal, webPc, webAbortTick, webOut, webCalls>>
    /\ UNCHANGED <<agentVars, parseVars, pathVars, fsVars, nodeVars, rtVars,
                   searchVars>>

\* A child the kill signal was sent to is gone; its 'close' is handled by
\* the handler of its own invocation.
ChildDies(i) ==
    /\ i \in DOMAIN webChildren
    /\ webChildren[i] = "signalled"
    /\ webChildren' = [webChildren EXCEPT ![i] = "killed"]
    /\ webPromise' = IF i = Len(webChildren)
                     THEN OnClose(webPromise, KilledExit) ELSE webPromise
    /\ UNCHANGED <<webSignal, webPc, webAbortTick, webOut, webCalls>>
    /\ UNCHANGED <<agentVars, parseVars, pathVars, fsVars, nodeVars, rtVars,
                   searchVars>>

\* execute goes on after its await, in its try or its catch, and returns.
WebContinues ==
    /\ webPc = "awaiting"
    /\ webPromise.state \in {"resolved", "rejected"}
    /\ webPc' = "settled"
    /\ webOut' = [kind |-> "returned", text |-> WebResult(webPromise)]
    /\ UNCHANGED <<webSignal, webPromise, webChildren, webAbortTick, webCalls>>
    /\ UNCHANGED <<agentVars, parseVars, pathVars, fsVars, nodeVars, rtVars,
                   searchVars>>

WebNext ==
    \/ \E payload \in WebPayloads, avail \in BOOLEAN : WebInvoke(payload, avail)
    \/ SpawnError
    \/ AbortTick
    \/ Cancel
    \/ \E exit \in CurlExits : ChildFinishes(exit)
    \/ \E i \in 1 .. MaxWebCalls : ChildDies(i)
    \/ WebContinues

SpecWeb == WebInit /\ [][WebNext]_vars

\* The event loop runs every task that is due, and a process the kill
\* signal was sent to ends; curl by itself may take for ever.
SpecWebFair ==
    /\ SpecWeb
    /\ WF_vars(SpawnError)
    /\ WF_vars(AbortTick)
    /\ WF_vars(\E i \in 1 .. MaxWebCalls : ChildDies(i))
    /\ WF_vars(WebContinues)

(***************************************************************************)
(* Properties.                                                             *)
(***************************************************************************)
Started(r) == pc[r] # "idle"
InFlight(r) == llmInFlight[r] + toolInFlight[r]
Observations(sp) == {sp[i].observation : i \in DOMAIN sp}
SessionOf(r) == CHOOSE e \in {sessions[i] : i \in DOMAIN sessions} : e.id = r

\* C1: in every run, whatever maxTurns is configured (8 when none is),
\* the number of llm.complete calls and the number of tool.execute calls
\* each stay at or below maxTurns.
C1_TurnBudget ==
    \A r \in RunIds : llmCalls[r] <= maxTurns /\ toolCalls[r] <= maxTurns

\* A run under the default budget that has used all 8 turns.
C1_Witness ==
    \E r \in RunIds :
        /\ maxTurnsCfg = <<>>
        /\ llmCalls[r] = DefaultMaxTurns
        /\ toolCalls[r] = DefaultMaxTurns
        /\ pc[r] = "returned"

\* C2: a run whose maxTurns replies were all Actions naming a registered
\* tool, each tool invocation having settled (resolved or rejected), has
\* returned the fixed exhaustion output with exactly maxTurns step records,
\* every one of them an action record (so the result is not a Final one);
\* it has not thrown.
C2_ExhaustionReturns ==
    \A r \in RunIds :
        (Started(r) /\ toolCalls[r] = maxTurns /\ toolInFlight[r] = 0)
            => /\ pc[r] = "returned"
               /\ result[r].output = EXHAUSTED_OUTPUT
               /\ Len(result[r].thoughts) = maxTurns
               /\ \A i \in DOMAIN result[r].thoughts :
                      result[r].thoughts[i].action # <<>>

\* C3: once the latest reply of a run parses as an Action whose tool name
\* is not in the registry, the run has thrown the unknown-tool error, no
\* tool was invoked and no step record appended on that turn (both counts
\* are those of the earlier turns), nothing is in flight, and this stays so:
\* no later model call or tool invocation is made.
C3_UnknownToolAborts ==
    \A r \in RunIds :
        LET parsed == ParseReactOutput(llmOutput[r])
        IN  (parsed.kind = "action" /\ parsed.toolName \notin Registry)
                => /\ pc[r] = "thrown"
                   /\ error[r] = UnknownTool(parsed.toolName)
                   /\ toolCalls[r] = llmCalls[r] - 1
                   /\ Len(thoughts[r]) = llmCalls[r] - 1
                   /\ InFlight(r) = 0

\* A run that threw the unknown-tool error after an earlier turn's tool ran.
C3_Witness ==
    \E r \in RunIds :
        /\ pc[r] = "thrown"
        /\ error[r] = UnknownTool("bogus")
        /\ toolCalls[r] >= 1

\* C4: when the tool invocation just awaited was rejected, the run has not
\* thrown; its newest step record carries an observation that begins with
\* the failure prefix, and the run went on: the next model call is pending
\* with that observation in the scratchpad of its prompt (or, the budget
\* being used up, the run returned).
C4_ToolFailureRecovered ==
    \A r \in RunIds :
        toolOutcome[r].kind = "reject"
            => /\ pc[r] # "thrown"
               /\ thoughts[r] # <<>>
               /\ thoughts[r][Len(thoughts[r])].observation # <<>>
               /\ Head(thoughts[r][Len(thoughts[r])].observation)
                      = TOOL_FAILED_PREFIX
               /\ \/ /\ pc[r] = "llm"
                     /\ thoughts[r][Len(thoughts[r])].observation
                            \in Observations(messages[r].scratchpad)
                  \/ pc[r] = "returned" /\ turn[r] = maxTurns

\* C5: from the moment a run's signal is cancelled while its model call or
\* its tool invocation is in flight, the run makes no further model call
\* and no further tool invocation, and when it ends it ends by throwing the
\* AbortError (not by returning a result, not with another error).
C5_CancellationAborts ==
    [][\A r \in RunIds :
          (mounted' /\ supersededAt[r] \in {"llm", "tool"})
              => /\ llmCalls'[r] = llmCalls[r]
                 /\ toolCalls'[r] = toolCalls[r]
                 /\ (pc'[r] \in {"returned", "thrown"}
                        => pc'[r] = "thrown" /\ error'[r] = AbortError)]_vars

\* C6: at most one started run has a signal that is not cancelled, and a
\* run that has made a model call has every earlier run's signal cancelled.
C6_SingleLiveSignal ==
    /\ Cardinality({r \in RunIds : Started(r) /\ ~aborted[r]}) <= 1
    /\ \A q, r \in RunIds :
          (q < r /\ Started(q) /\ llmCalls[r] >= 1) => aborted[q]

\* A run still in flight with its signal cancelled, the newer run having
\* made its first model call.
C6_Witness ==
    \E q, r \in RunIds :
        /\ q < r
        /\ pc[q] \in {"llm", "tool"}
        /\ aborted[q]
        /\ llmCalls[r] = 1
        /\ ~aborted[r]

\* C7: a run superseded while its model call or tool invocation was in
\* flight has the session status 'running' until it settles and 'aborted'
\* afterwards, never 'completed' or 'error'.
C7_SupersededEndsAborted ==
    \A r \in RunIds :
        supersededAt[r] \in {"llm", "tool"}
            => SessionOf(r).status \in {"running", "aborted"}

\* C8: tool invocations of two runs of the surface are never in flight
\* together.
C8_ToolsOfTwoRunsNeverOverlap ==
    Cardinality({r \in RunIds : toolInFlight[r] > 0}) <= 1

\* C9: a run that has thrown has thrown the unparsable-response error, the
\* unknown-tool error or (cancellation) the AbortError, nothing else.
C9_OnlyTwoHardFailures ==
    \A r \in RunIds :
        pc[r] = "thrown"
            => \/ error[r] = UnparsableResponse
               \/ error[r] \in {UnknownTool(n) : n \in UnknownNames}
               \/ error[r] = AbortError

\* C10: within one run at most one step is in flight; a tool invocation is
\* started only after the model call of its turn has settled, and the model
\* call of the next turn only after that tool invocation has settled.
C10_OneStepInFlight ==
    \A r \in RunIds :
        /\ InFlight(r) <= 1
        /\ toolCalls[r] <= llmCalls[r] - llmInFlight[r]
        /\ llmCalls[r] <= (toolCalls[r] - toolInFlight[r]) + 1

\* The model call of a later turn is in flight, its predecessor's tool
\* invocation having settled.
C10_Witness ==
    \E r \in RunIds :
        /\ llmInFlight[r] = 1
        /\ toolInFlight[r] = 0
        /\ toolCalls[r] >= 1
        /\ turn[r] >= 1

IsPrefix(s, t) == Len(s) <= Len(t) /\ SubSeq(t, 1, Len(s)) = s
\* The turn block a step record renders to: its Thought, Action, Action
\* Input and Observation lines.
RenderStep(rec) ==
    [thought |-> rec.thought,
     action |-> IF rec.action = <<>> THEN "" ELSE rec.action[1].toolName,
     actionInput |-> IF rec.action = <<>> THEN "" ELSE rec.action[1].input,
     observation |-> rec.observation]
\* The order-preserving fold of a record sequence: one block per record.
FoldSteps(recs) == [i \in DOMAIN recs |-> RenderStep(recs[i])]

\* C11: once the latest reply of a run parses as Final, the run has
\* returned with the final text as its output and no tool was invoked on
\* that turn; with the reply being that of turn k (k earlier replies were
\* Actions), the step records are k action records, each with an action and
\* an observation, followed by exactly one record that carries the thought,
\* no action and no observation. A Final first reply gives one turn and one
\* record with no action.
C11_FinalCompletes ==
    \A r \in RunIds :
        LET parsed == ParseReactOutput(llmOutput[r])
            recs == result[r].thoughts
            k == llmCalls[r] - 1
        IN  (llmOutput[r] # NoReply /\ parsed.kind = "final")
                => /\ pc[r] = "returned"
                   /\ result[r].output = parsed.finalResponse
                   /\ toolCalls[r] = k
                   /\ InFlight(r) = 0
                   /\ recs = thoughts[r]
                   /\ Len(recs) = k + 1
                   /\ \A i \in 1 .. k :
                         recs[i].action # <<>> /\ recs[i].observation # <<>>
                   /\ recs[k + 1].thought = parsed.thought
                   /\ recs[k + 1].action = <<>>
                   /\ recs[k + 1].observation = <<>>

\* A run that returned a Final result on its second turn, after one action.
C11_Witness ==
    \E r \in RunIds :
        /\ pc[r] = "returned"
        /\ ParseReactOutput(llmOutput[r]).kind = "final"
        /\ llmCalls[r] = 2
        /\ toolCalls[r] = 1
        /\ Len(result[r].thoughts) = 2

\* C12: while the model call of a turn is pending, the scratchpad in its
\* prompt is the fold of the run's step records so far, in order, and it is
\* empty exactly when there are no records.
C12_ScratchpadIsFold ==
    \A r \in RunIds :
        pc[r] = "llm"
            => /\ messages[r].scratchpad = FoldSteps(thoughts[r])
               /\ (messages[r].scratchpad = <<>>) = (thoughts[r] = <<>>)

\* The model call of a second turn is pending, its prompt holding the block
\* of the first turn's failed tool invocation.
C12_Witness ==
    \E r \in RunIds :
        /\ pc[r] = "llm"
        /\ Len(thoughts[r]) = 1
        /\ Len(messages[r].scratchpad) = 1
        /\ messages[r].scratchpad[1].observation = <<TOOL_FAILED_PREFIX, "boom">>

\* C13: while the surface lives, a step leaves every run's earlier record
\* sequence a prefix of its later one (nothing appended is changed or
\* removed), and a step that appends to one run's records leaves the
\* records and the scratchpad of every other run as they were.
C13_RecordsAppendOnly ==
    [][mounted' =>
          /\ \A r \in RunIds : IsPrefix(thoughts[r], thoughts'[r])
          /\ \A q, r \in RunIds :
                (q # r /\ thoughts'[r] # thoughts[r])
                    => /\ thoughts'[q] = thoughts[q]
                       /\ scratchpad'[q] = scratchpad[q]]_vars

\* Two runs of one agent that hold different numbers of records.
C13_Witness ==
    \E q, r \in RunIds :
        /\ Len(thoughts[q]) = 2
        /\ Len(thoughts[r]) = 1

\* What the parser's contract speaks of, read off the text itself.
HasLabel(L, l) == \E i \in DOMAIN L : L[i].label = l
\* A Final label with text after it.
FinalWithText(L) ==
    \E i \in DOMAIN L : L[i].label = "final" /\ (L[i].body # "" \/ i < Len(L))
\* An Action label, a tool name (on its line or on the next line that is not
\* blank), and an Action Input label on the line right after the name.
ActionPairAt(L, i, n) ==
    /\ L[i].label = "action"
    /\ \/ n = i /\ L[i].body # ""
       \/ /\ L[i].body = ""
          /\ n > i
          /\ ~IsBlank(L[n])
          /\ \A j \in (i + 1) .. (n - 1) : IsBlank(L[j])
    /\ n + 1 <= Len(L)
    /\ L[n + 1].label = "input"
ActionPair(L) == \E i, n \in DOMAIN L : ActionPairAt(L, i, n)
\* Such a pair whose Action Input label has text after it.
ActionPairWithInput(L) ==
    \E i, n \in DOMAIN L :
        ActionPairAt(L, i, n) /\ (L[n + 1].body # "" \/ n + 1 < Len(L))
\* The same text with every label in the prompt's spelling.
Respelled(L) == [i \in DOMAIN L |-> [L[i] EXCEPT !.lower = FALSE]]

\* C14: parseReactOutput gives every text exactly one outcome: Final exactly
\* when a Final Response label with text after it is in the text (also when
\* an Action pair is there too), Action exactly when there is no such Final
\* label and an Action label with a tool name is followed on the next line
\* by an Action Input label with text after it, and it throws otherwise. The
\* spelling's case of the labels does not matter, and a text with no
\* Thought label gets the empty thought, the outcome being that of the
\* other labels.
C14_ParseShape ==
    LET L == TrimText(parseIn)
    IN  parseOut.kind # "none"
            => /\ parseOut.kind \in {"final", "action", "throws"}
               /\ (parseOut.kind = "final") = FinalWithText(L)
               /\ (parseOut.kind = "action")
                      = (~FinalWithText(L) /\ ActionPairWithInput(L))
               /\ parseOut.kind = ParseText(Respelled(parseIn)).kind
               /\ (~HasLabel(L, "thought") /\ parseOut.kind # "throws")
                      => parseOut.thought = <<>>

\* A text in lower-case labels that holds an Action pair and a Final label
\* and no Thought label was parsed as Final.
C14_Witness ==
    /\ parseOut.kind = "final"
    /\ ActionPairWithInput(TrimText(parseIn))
    /\ ~HasLabel(parseIn, "thought")
    /\ \A i \in DOMAIN parseIn : parseIn[i].label # "none" => parseIn[i].lower

\* C14 as stated: Final whenever a Final Response label is anywhere in the
\* text, Action only when an Action pair is present and no Final label is.
C14_FinalWheneverLabelled ==
    LET L == TrimText(parseIn)
    IN  parseOut.kind # "none"
            => /\ HasLabel(L, "final") => parseOut.kind = "final"
               /\ parseOut.kind = "action"
                      => ActionPair(L) /\ ~HasLabel(L, "final")

\* C15: once the latest reply of a run holds neither a Final label with
\* text nor an Action line followed by Action Input, the run has thrown the
\* unparsable-response error; no tool was invoked and no step record
\* appended on that turn (both counts are those of the earlier turns) and
\* nothing is in flight, and this stays so: no further model call is made.
C15_UnparsableAborts ==
    \A r \in RunIds :
        (llmOutput[r] # NoReply /\ ~llmOutput[r].final /\ ~llmOutput[r].action)
            => /\ pc[r] = "thrown"
               /\ error[r] = UnparsableResponse
               /\ toolCalls[r] = llmCalls[r] - 1
               /\ Len(thoughts[r]) = llmCalls[r] - 1
               /\ InFlight(r) = 0

\* A run that threw the unparsable-response error on its second turn.
C15_Witness ==
    \E r \in RunIds :
        /\ pc[r] = "thrown"
        /\ error[r] = UnparsableResponse
        /\ llmCalls[r] = 2
        /\ toolCalls[r] = 1

\* A path equals the root or lies under it, separators bounding the match.
Within(p, root) == IsPrefix(root, p)
\* The candidate's text without the blanks at its ends, taken relative to
\* the root and canonicalized.
CanonRelative(root, c) == ResolveSegs(root, TrimCand(c).segs)
\* The candidate resolved against the root as a path is commonly resolved:
\* an absolute candidate stands for itself.
CanonStandard(root, c) ==
    IF c.abs THEN ResolveSegs(<<>>, TrimCand(c).segs) ELSE CanonRelative(root, c)

\* C16: resolveRepoPath accepts a candidate exactly when its canonicalized
\* resolution against the root (the candidate taken relative to the root)
\* equals the root or is a separator-bounded descendant of it; the accepted
\* result is that canonical path, and a candidate whose resolution climbs
\* out of the root fails with the access violation error.
C16_AcceptsIffWithin ==
    pathPc # "start"
        => /\ pathOut.ok = Within(CanonRelative(cwd, pathIn), cwd)
           /\ pathOut.ok => pathOut.path = CanonRelative(cwd, pathIn)
           /\ ~Within(CanonRelative(cwd, pathIn), cwd)
                  => ~pathOut.ok /\ pathOut.error = ACCESS_VIOLATION

\* C17: an absolute candidate is taken relative to the root: when accepted
\* it is mapped to the path of its segments under the root, which lies in
\* the root; it is rejected only with the access violation error and only
\* when that path climbs out of the root or the root is "/".
C17_AbsoluteTakenRelative ==
    (pathPc # "start" /\ pathIn.abs)
        => /\ pathOut.ok
                => /\ pathOut.path = CanonRelative(cwd, pathIn)
                   /\ Within(pathOut.path, cwd)
           /\ ~pathOut.ok
                => /\ pathOut.error = ACCESS_VIOLATION
                   /\ ~Within(CanonRelative(cwd, pathIn), cwd) \/ cwd = <<>>

\* The absolute candidate "/src", which is outside the root "/repo", was
\* accepted and mapped to "/repo/src".
C17_Witness ==
    /\ pathPc = "resolved"
    /\ cwd = <<"repo">>
    /\ pathIn = [abs |-> TRUE, segs |-> <<"src">>]
    /\ pathOut = [ok |-> TRUE, error |-> "", path |-> <<"repo", "src">>]

\* C17 as stated: an absolute candidate that denotes a location outside the
\* root fails with the access violation error.
C17_AbsoluteOutsideRejected ==
    (pathPc # "start" /\ pathIn.abs /\ ~Within(CanonStandard(cwd, pathIn), cwd))
        => ~pathOut.ok /\ pathOut.error = ACCESS_VIOLATION

\* C19: an accepted path whose display path has no blank at either end
\* resolves again from that display path to the same absolute path, and
\* the display path of the root (the candidates ".", empty and blank give
\* the root) is exactly ".".
C19_DisplayRoundTrip ==
    /\ pathPc = "again"
          => /\ TrimCand(displayPath) = displayPath
                   => pathAgain.ok /\ pathAgain.path = pathOut.path
             /\ pathOut.path = cwd => displayPath = DotPath
    /\ (pathPc \in {"resolved", "formatted", "again"}
            /\ NormalizedCand(pathIn) = DotPath)
          => pathOut.path = cwd

\* A path two levels under the root went through its display path and back.
C19_Witness ==
    /\ pathPc = "again"
    /\ Len(pathOut.path) = Len(cwd) + 2
    /\ pathAgain.ok
    /\ pathAgain.path = pathOut.path

\* C19 as stated: every accepted path resolves again from its display path
\* to the same absolute path.
C19_RoundTrip ==
    pathPc = "again" => pathAgain.ok /\ pathAgain.path = pathOut.path

\* The part of a set of paths that lies outside the root.
OutsideOf(paths, root) == {q \in paths : ~Within(q, root)}

\* C18: over any sequence of list_files, read_file, write_file and
\* file_search invocations, every path an invocation read, listed, created
\* or wrote equals the root or lies under it and nothing outside the root
\* is created or removed; an invocation whose input path resolves outside
\* the root failed with the access violation error and made no filesystem
\* access.
C18_AccessConfined ==
    /\ \A a \in fsLast.accessed : Within(a.path, cwd)
    /\ OutsideOf(fsDirs, cwd) = OutsideOf(InitialDirs(cwd), cwd)
    /\ OutsideOf(fsFiles, cwd) = OutsideOf(InitialFiles(cwd), cwd)
    /\ (fsLast.tool # "none" /\ fsLast.valid /\ ~Within(fsLast.target, cwd))
          => /\ ~fsLast.ok
             /\ fsLast.error = ACCESS_VIOLATION
             /\ fsLast.accessed = {}

\* A write that created a directory under the root was followed by an
\* invocation that pointed at the directory next to the root and was
\* rejected.
C18_Witness ==
    /\ fsDirs # InitialDirs(cwd)
    /\ fsLast.target \in SiblingDirs(cwd)
    /\ fsLast.error = ACCESS_VIOLATION

\* C20: every call of the sandbox's process.exit, whatever its exit code and
\* whichever scripting tool runs the script, threw the "process.exit(<code>)
\* is not allowed" error, and the host process is still running after every
\* invocation of a scripting tool.
C20_ExitNeverTerminatesHost ==
    /\ \A i \in DOMAIN snippetOut.exitCalls :
          snippetOut.exitCalls[i].threw =
              <<"process.exit(" \o ToString(snippetOut.exitCalls[i].code)
                   \o ") is not allowed inside the node tool.">>
    /\ hostAlive

\* The console lines the invocation recorded, as its text shows them.
ConsoleLines(out) ==
    IF out.outcome # "resolved" THEN <<>>
    ELSE IF out.tool = "node"
    THEN IF out.text[1] = "Console output:"
         THEN SubSeq(out.text, 2, Len(out.text) - 2) ELSE <<>>
    ELSE IF out.text = <<"undefined">> THEN <<>> ELSE out.text
\* The statements of a script that write a console line when they run.
Writes(code) ==
    {i \in DOMAIN code : code[i].op \in {"log", "logGlobal", "tryExit"}}

\* C21: once an invocation of a scripting tool has returned, nothing of it
\* is left for the next one: no timer it started is pending in the host, a
\* script that sets no global finds none (typeof g is "undefined"), and the
\* console lines of an invocation are no more than its own script wrote.
C21_NothingPersists ==
    /\ timers = {}
    /\ (\A i \in DOMAIN snippet : snippet[i].op # "setGlobal")
           => \A i \in DOMAIN snippetOut.text : snippetOut.text[i] # "number"
    /\ Len(ConsoleLines(snippetOut)) <= Cardinality(Writes(snippet))

\* C22: when the run's signal is cancelled while the curl process of a web
\* invocation runs, the process is sent the kill signal and the promise of
\* the invocation is rejected in that step; an invocation awaited under a
\* cancelled signal settles, and every process spawned under a cancelled
\* signal ends.
C22_CancelKillsAndSettles ==
    /\ [][(~webSignal /\ webSignal' /\ webChildren # <<>>
              /\ Last(webChildren) = "running")
            => (Last(webChildren') = "signalled"
                  /\ webPromise'.state = "rejected")]_vars
    /\ (webSignal /\ webPc = "awaiting") ~> (webPc = "settled")
    /\ \A i \in 1 .. MaxWebCalls :
          (webSignal /\ i \in DOMAIN webChildren
             /\ webChildren[i] \in {"running", "signalled"})
          ~> (i \in DOMAIN webChildren
                /\ webChildren[i] \in {"killed", "exited"})

\* A run was cancelled while curl was running: curl is gone by the signal
\* and the invocation has returned the failure text.
C22_Witness ==
    /\ webSignal
    /\ webCalls = 1
    /\ webChildren = <<"killed">>
    /\ webPc = "settled"
    /\ webOut = [kind |-> "returned",
                 text |-> "Failed to fetch u: The operation was aborted"]

\* Where a search that is let through starts, from the root; the files in
\* the directories its walk lists; the segments of a path that name an
\* ignored directory.
SearchStart == ResolveSegs(<<>>, SubRoot(srchIn).segs)
SearchedFiles ==
    {f \in SearchFiles :
        /\ Dirname(f) \in Walked(SearchStart, SearchDirs)
        /\ srchTree.kinds[f] # "other"}
NoLineMatches == \A f \in SearchedFiles : MatchCount(srchTree.kinds[f]) = 0
AllReadable ==
    /\ SearchStart \in SearchDirs
    /\ Walked(SearchStart, SearchDirs) \cap srchTree.locked = {}
    /\ \A f \in SearchedFiles : srchTree.kinds[f] # "unreadable"
InIgnored(f) == \E k \in 1 .. (Len(f) - 1) : f[k] \in IGNORED_DIRS

C25_MatchCap ==
    /\ Len(srchOut.results) <= MAX_MATCHES
    /\ \A i \in DOMAIN srchOut.trace : srchOut.trace[i].had < MAX_MATCHES

\* The cap was reached with an error line among the results, and a
\* directory of the walk was never listed.
C25_Witness ==
    /\ Len(srchOut.results) = MAX_MATCHES
    /\ \E i \in DOMAIN srchOut.results : srchOut.results[i].error
    /\ \E d \in Walked(SearchStart, SearchDirs) :
          \A i \in DOMAIN srchOut.trace : srchOut.trace[i].path # d

\* C26: no search reads a file inside a directory named in IGNORED_DIRS
\* and no result line refers to one, whatever sub-root is searched.
C26_IgnoredNeverRead ==
    /\ \A i \in DOMAIN srchOut.trace :
          srchOut.trace[i].op \in {"stat", "readFile"}
              => ~InIgnored(srchOut.trace[i].path)
    /\ \A i \in DOMAIN srchOut.results :
          srchOut.results[i].path \in SearchFiles
              => ~InIgnored(srchOut.results[i].path)

\* C27: a search whose payload is not JSON or has no pattern, whose pattern
\* is no regular expression, or whose sub-root lies outside the root fails
\* with the error of that fault, the first in this order, and has made no
\* fs call; every other search goes through.
C27_ValidationFirst ==
    srchOut.outcome # "none"
        => LET escapes ==
                   ~Within(ResolveSegs(cwd, SubRoot(srchIn).segs), cwd)
               expected ==
                   CASE srchIn.payload = "badjson" ->
                          "Invalid JSON. Expect {\"pattern\": \"TODO\", \"path\": \"src\"}."
                     [] srchIn.payload = "nopattern" ->
                          "Missing \"pattern\" field."
                     [] srchIn.payload = "badregex" ->
                          "Invalid regular expression: /(/: Unterminated group"
                     [] OTHER -> ACCESS_VIOLATION
           IN  IF srchIn.payload # "ok" \/ escapes
               THEN /\ srchOut.outcome = "rejected"
                    /\ srchOut.error = expected
                    /\ srchOut.trace = <<>>
               ELSE srchOut.outcome = "resolved"

\* A search with a pattern and the sub-root '..' was turned away untouched.
C27_Witness ==
    /\ srchIn = [payload |-> "ok", path |-> Rel(<<"..">>)]
    /\ srchOut.outcome = "rejected"
    /\ srchOut.error = "Access outside of repository root is not allowed."
    /\ srchOut.trace = <<>>

\* C24 (as amended): write_file followed by read_file of the same path
\* returns exactly the contents written if and only if they are at most
\* READ_CHAR_LIMIT characters long and hold no surrogate without its pair;
\* longer contents come back cut to READ_CHAR_LIMIT characters, or as the
\* 'too large' text when the file is larger than READ_BYTE_LIMIT bytes.
C24_RoundTripWithinLimits ==
    rtPc = "read"
        => /\ (rtRead = [kind |-> "contents", content |-> rtContent])
                <=> (rtContent.length <= READ_CHAR_LIMIT /\ ~rtContent.lone)
           /\ rtContent.length > READ_CHAR_LIMIT
                => rtRead.kind = IF ByteSize(rtStored) > READ_BYTE_LIMIT
                                 THEN "too large" ELSE "truncated"

\* Contents of READ_CHAR_LIMIT characters were written to a file in a new
\* directory and read back as they were.
C24_Witness ==
    /\ rtPc = "read"
    /\ pathIn = Rel(<<"new", "f">>)
    /\ rtContent = [text |-> "t", length |-> READ_CHAR_LIMIT, wide |-> TRUE,
                    lone |-> FALSE]
    /\ rtRead = [kind |-> "contents", content |-> rtContent]

\* C24 (as stated): for every path inside the root and every contents,
\* write_file followed by read_file returns exactly the contents written.
C24_WriteReadRoundTrip ==
    rtPc = "read" => rtRead = [kind |-> "contents", content |-> rtContent]

\* The run started last, if any; a run that has not settled.
LatestRun == sessionCounter - 1
Unsettled(r) == pc[r] \in {"llm", "tool"}

\* C28: the active-run marker designates the run started last for as long
\* as that run has not settled, and is empty otherwise: the settling of a
\* superseded run leaves it alone, the settling of the run started last
\* empties it, and it never designates a run that has settled.
C28_MarkerIsLatestUnsettled ==
    [](mounted =>
          activeSessionId =
              IF sessionCounter > 0 /\ Unsettled(LatestRun)
              THEN LatestRun ELSE NoSession)

\* A superseded run has settled after a newer run was started, and the
\* marker still designates the newer run, which goes on.
C28_Witness ==
    /\ sessionCounter = 2
    /\ supersededAt[0] \in {"llm", "tool"}
    /\ pc[0] \in {"returned", "thrown"}
    /\ Unsettled(1)
    /\ activeSessionId = 1

\* The entry of session id in a list of entries that holds one.
EntryOf(ss, id) == CHOOSE e \in {ss[i] : i \in DOMAIN ss} : e.id = id
Ids(ss) == {ss[i].id : i \in DOMAIN ss}

\* C29: the entries have ids of their own; while the surface lives, no
\* entry is dropped, a new entry has the next id and the status 'running'
\* (with a budget of no turns it is completed in the very task that adds
\* it), an entry that is not 'running' never changes again, and a
\* 'running' entry changes only in the step in which its own run settles,
\* to 'completed', 'error' or 'aborted'.
C29_EntriesSettleOnce ==
    /\ [](\A i, j \in DOMAIN sessions :
              sessions[i].id = sessions[j].id => i = j)
    /\ [][mounted' =>
            \/ sessions' = sessions
            \/ LET before == Ids(sessions)
                   added == Ids(sessions') \ before
               IN  /\ before \subseteq Ids(sessions')
                   /\ \A id \in added :
                         /\ id = sessionCounter
                         /\ added = {id}
                         /\ EntryOf(sessions', id).status =
                               IF maxTurns = 0 THEN "completed"
                               ELSE "running"
                   /\ \A id \in before :
                         \/ EntryOf(sessions', id) = EntryOf(sessions, id)
                         \/ /\ EntryOf(sessions, id).status = "running"
                            /\ EntryOf(sessions', id).status
                                  \in {"completed", "error", "aborted"}
                            /\ Unsettled(id)
                            /\ ~Unsettled(id)']_vars

\* Two sessions side by side: the older one settled as 'aborted' while the
\* newer one is still 'running'.
C29_Witness ==
    /\ Len(sessions) = 2
    /\ sessions[1].id = 1 /\ sessions[1].status = "running"
    /\ sessions[2].id = 0 /\ sessions[2].status = "aborted"

====
